---- MODULE Spec2Model ----
(***************************************************************************)
(* FirePumpkin / FireBeat: the control panel's safety interlock            *)
(* (firebeat_gui/app.py), the show runner (FireBeat/showrunner.py) and the *)
(* two schedule dispatchers (FireBeat/plc_controller.py).                  *)
(***************************************************************************)
EXTENDS Integers, Sequences, FiniteSets, TLC

\* ------------------------------------------------------------------ bounds
\* app.py:63 keeps four pumpkin slots; the readers assign pumpkin = i % 4.
NumChannels == 4
\* Largest start time (in clock ticks) of a pulse of the drawn schedules.
MaxStart == 1
\* Largest NOTE_DURATION (in clock ticks) of the drawn schedules.
MaxDuration == 2
\* Largest number of pulses of a drawn schedule.
MaxPulses == 2
\* Largest number of pending hold-timeout threads.
MaxTimers == 2
\* Largest number of Modbus writes that fail in one run.
MaxFaults == 1

Channels == 0 .. (NumChannels - 1)
\* Physical coil addresses of the PLC.
Coils == 0 .. NumChannels
\* Python's None.
None == -1

\* What a Modbus write can do: succeed, return an error response (logged by
\* set_coil, not raised), or raise (connection lost).
Outcomes == {"ok", "error", "raise"}

\* config.ini [modbus_ports]: the wiring of the rig (pymodbus_test.py:9-14,
\* pumpkins on coils 0..3 and the igniter shutoff on coil 4) and a wiring whose
\* coil addresses differ from the logical indices (pumpkins on coils 4..1,
\* the igniter shutoff on coil 0).
CoilConfigs ==
  { [pumpkins |-> [i \in Channels |-> i], igniter |-> NumChannels],
    [pumpkins |-> [i \in Channels |-> NumChannels - i], igniter |-> 0] }

VARIABLES
  PUMPKIN_COILS,     \* constants.py: logical pumpkin index -> coil address
  IGNITER_SHUTOFF,   \* constants.py: coil address of the igniter shutoff
  DRYRUN,            \* app.py: simulated controller instead of the PLC
  ARM_REQUIRED,      \* app.py: pumpkins fire only when the igniter is armed
  MAX_HOLD_SECONDS,  \* app.py: auto-release duration, 0 = unlimited hold
  State,             \* app.py STATE dictionary: [igniter_armed, pumpkins]
  plcCoils,          \* the physical PLC's coils (shutoff TRUE = disarmed)
  panelSim,          \* coil_states of the panel's PygamePLCController
  holdTimers,        \* pending killer threads of _start_hold_timeout, per pumpkin
  staleTimers,       \* those of them started by a press that has ended since
  procAlive,         \* the panel process has not exited
  last,              \* the latest panel handler: what it reported and wrote
  faults,            \* the Modbus writes that have failed so far
  show,              \* SHOWS entry and run_blocking_action's locals
  disp,              \* the schedule thread running plc.run_schedule
  showSim,           \* coil_states of the show's PygamePLCController
  stream,            \* the audio stream: its clock and whether it is open
  applied,           \* the coil writes issued by the dispatcher, in order
  readerCall,        \* the latest call into map_reader: its arguments and result
  threads,           \* the panel's execution contexts: where each one stands
  PLC_LOCK,          \* app.py PLC_LOCK: the context that holds it, or "free"
  otherShow          \* a second SHOWS entry and the place of its thread

panelVars == <<State, plcCoils, panelSim, holdTimers, staleTimers, procAlive, last, faults>>
configVars == <<PUMPKIN_COILS, IGNITER_SHUTOFF, DRYRUN, ARM_REQUIRED, MAX_HOLD_SECONDS>>
showVars == <<show, disp, showSim, stream, applied>>
readerVars == <<readerCall>>
threadVars == <<threads, PLC_LOCK, otherShow>>
vars == <<configVars, panelVars, showVars, readerVars, threadVars>>

\* ------------------------------------------------------------ controllers
\* PLCController.set_coil: the coil changes only when the write succeeds; an
\* error response is logged and swallowed; an exception leaves the coil as is.
PlcSetCoil(coils, coil, state, o) ==
  IF o = "ok" THEN [coils EXCEPT ![coil] = state] ELSE coils

\* PygamePLCController.set_coil: unknown coils are ignored with a warning.
PygameSetCoil(sim, coil, state) ==
  IF coil \in DOMAIN sim THEN [sim EXCEPT ![coil] = state] ELSE sim

\* PygamePLCController.__init__: every pumpkin coil starts False.
PygameInit(pumpkinCoils) ==
  [c \in {pumpkinCoils[i] : i \in Channels} |-> FALSE]

\* app.py PUMPKIN_COIL_LIST: the coils by ascending pumpkin index, cut to four.
PUMPKIN_COIL_LIST == [i \in Channels |-> PUMPKIN_COILS[i]]

\* Python truthiness of a coil entry, as tested by "if coil:".
Truthy(coil) == coil # None /\ coil # 0

\* The outcome of a write by the panel's controller: the simulated controller
\* never fails.
PanelOutcome(o) == IF DRYRUN THEN "ok" ELSE o

\* plc.set_coil on the panel's controller, as a pair of stores.
PanelSetCoil(st, coil, state, o) ==
  IF DRYRUN
    THEN [st EXCEPT !.sim = PygameSetCoil(st.sim, coil, state)]
    ELSE [st EXCEPT !.plc = PlcSetCoil(st.plc, coil, state, o)]

\* The failures still possible: the simulated controller never fails, and a
\* run sees at most MaxFaults failing writes.
WriteOutcomes == IF DRYRUN \/ faults >= MaxFaults THEN {"ok"} ELSE Outcomes

Faulted(o) == IF o = "ok" THEN faults ELSE faults + 1

NoOp == [op |-> "none", idx |-> None, result |-> "none", writes |-> {}]

\* MAX_HOLD_SECONDS of the environment: 0 (the default, unlimited hold) or a
\* positive auto-release duration.
HoldSeconds == {0, 1}

\* ------------------------------------------------------------------- Init
InitConfig ==
  /\ \E cfg \in CoilConfigs :
       /\ PUMPKIN_COILS = cfg.pumpkins
       /\ IGNITER_SHUTOFF = cfg.igniter
  /\ DRYRUN \in BOOLEAN
  /\ ARM_REQUIRED \in BOOLEAN
  /\ MAX_HOLD_SECONDS \in HoldSeconds

InitPanel ==
  /\ State = [igniter_armed |-> FALSE, pumpkins |-> [i \in Channels |-> FALSE]]
  /\ plcCoils = [c \in Coils |-> c = IGNITER_SHUTOFF]
  /\ panelSim = PygameInit(PUMPKIN_COILS)
  /\ holdTimers = [i \in Channels |-> 0]
  /\ staleTimers = [i \in Channels |-> 0]
  /\ procAlive = TRUE
  /\ last = NoOp
  /\ faults = 0

\* No show started: status is the SHOWS entry's status, pc the place of the
\* run_blocking_action thread, exc whether the with-block is being left on an
\* exception, terminals the terminal statuses passed to set_status so far,
\* cause what the archive lacked when the show failed during startup,
\* is_dryrun the value of DRYRUN handed to the thread when it was created.
NoShow ==
  [status |-> "none", pc |-> "none", stop_event |-> FALSE, schedule |-> <<>>,
   exc |-> FALSE, terminals |-> <<>>, cause |-> "none", is_dryrun |-> FALSE]

\* No schedule thread: pc is its place in run_schedule ("dead_write" and
\* "dead_clock": ended by an exception of a write, of stream.time), idx the next event
\* (simulated controller) or pulse (PLC), sleep the rest of its time.sleep,
\* running the simulated controller's self.running.
NoDisp == [pc |-> "none", idx |-> 1, sleep |-> 0, running |-> TRUE]

\* No second show started.
NoOther == [status |-> "none", pc |-> "none"]

InitShow ==
  /\ show = NoShow
  /\ otherShow = NoOther
  /\ disp = NoDisp
  /\ showSim = PygameInit(PUMPKIN_COILS)
  /\ stream = [open |-> FALSE, closed |-> FALSE, ended |-> FALSE, time |-> 0]
  /\ applied = <<>>

\* No call into map_reader yet.
NoCall == [op |-> "none"]

\* No event handler running, no killer thread awake, PLC_LOCK free.
IdleHandler == [op |-> "none", idx |-> None, arg |-> FALSE, pc |-> "idle"]

InitThreads ==
  /\ threads = [handler |-> IdleHandler, killer |-> [i \in Channels |-> "idle"]]
  /\ PLC_LOCK = "free"

Init == InitConfig /\ InitPanel /\ InitShow /\ readerCall = NoCall /\ InitThreads

\* ---------------------------------------------------------- panel handlers
\* _igniter_set: State is updated unless the write raises.
IgniterSet(st, armed, o) ==
  LET w == PanelSetCoil(st, IGNITER_SHUTOFF, ~armed, o)
      wr == [w EXCEPT !.writes = @ \cup {<<IGNITER_SHUTOFF, ~armed>>}]
  IN IF PanelOutcome(o) = "raise"
       THEN [wr EXCEPT !.raised = TRUE]
       ELSE [wr EXCEPT !.armed = armed]

\* The stores a handler works on.
Stores ==
  [plc |-> plcCoils, sim |-> panelSim, pumpkins |-> State.pumpkins,
   armed |-> State.igniter_armed, writes |-> {}, raised |-> FALSE]

\* toggle_igniter that also records every pumpkin Off when it disarms.
ToggleIgniterAllOff(desired, o) ==
  /\ procAlive
  /\ LET r == IgniterSet(Stores, desired, o) IN
       /\ State' = [igniter_armed |-> r.armed,
                    pumpkins |-> [i \in Channels |-> State.pumpkins[i] /\ desired]]
       /\ plcCoils' = r.plc
       /\ panelSim' = r.sim
       /\ last' = [op |-> "toggle_igniter", idx |-> None,
                   result |-> IF r.raised THEN "raised" ELSE "ok",
                   writes |-> r.writes]
  /\ faults' = Faulted(o)
  /\ UNCHANGED <<holdTimers, staleTimers, procAlive, configVars, readerVars, threadVars, showVars>>

\* toggle_igniter
ToggleIgniter(desired, o) ==
  /\ procAlive
  /\ LET r == IgniterSet(Stores, desired, o) IN
       /\ State' = [State EXCEPT !.igniter_armed = r.armed]
       /\ plcCoils' = r.plc
       /\ panelSim' = r.sim
       /\ last' = [op |-> "toggle_igniter", idx |-> None,
                   result |-> IF r.raised THEN "raised" ELSE "ok",
                   writes |-> r.writes]
  /\ faults' = Faulted(o)
  /\ UNCHANGED <<holdTimers, staleTimers, procAlive, configVars, readerVars, threadVars, showVars>>

\* The pending killers that no longer belong to the press in course: all of
\* them once STATE records the pumpkin Off, killers sleep the same time and
\* wake in the order they were started.
StaleAfter(pumpkins, timers, stale) ==
  [i \in Channels |-> IF ~pumpkins[i] THEN timers[i] ELSE stale[i]]

\* The oldest killer of pumpkin idx has woken.
OldestWoke(stale, idx) == [stale EXCEPT ![idx] = IF @ > 0 THEN @ - 1 ELSE 0]

\* The killer threads pending on the pumpkins below i.
RECURSIVE PendingBelow(_)
PendingBelow(i) == IF i = 0 THEN 0 ELSE holdTimers[i - 1] + PendingBelow(i - 1)

\* _start_hold_timeout: starts a killer thread unless the hold is unlimited.
StartHoldTimeout(timers, idx) ==
  IF MAX_HOLD_SECONDS <= 0 THEN timers ELSE [timers EXCEPT ![idx] = @ + 1]

\* _pumpkin_on / _pumpkin_off: write the coil, then record the state.
PumpkinSet(st, idx, on, o) ==
  LET coil == PUMPKIN_COIL_LIST[idx]
      w == PanelSetCoil(st, coil, on, o)
      wr == [w EXCEPT !.writes = @ \cup {<<coil, on>>}]
  IN IF PanelOutcome(o) = "raise"
       THEN [wr EXCEPT !.raised = TRUE]
       ELSE [wr EXCEPT !.pumpkins[idx] = on]

\* The guard with the interlock test left out.
PressGuardNoInterlock(idx) ==
  IF idx < 0 \/ idx >= NumChannels THEN "invalid_index" ELSE "go"

\* What pumpkin_press does before it turns the pumpkin on: the reason it
\* rejects the request, or "go".
PressGuard(idx) ==
  IF idx < 0 \/ idx >= NumChannels THEN "invalid_index"
  ELSE IF ARM_REQUIRED /\ ~State.igniter_armed THEN "not_armed"
  ELSE "go"

\* pumpkin_press
PumpkinPress(idx, o) ==
  /\ procAlive
  /\ MAX_HOLD_SECONDS > 0 => PendingBelow(NumChannels) < MaxTimers
  /\ IF PressGuard(idx) # "go"
       THEN /\ last' = [op |-> "pumpkin_press", idx |-> idx,
                        result |-> PressGuard(idx), writes |-> {}]
            /\ UNCHANGED <<State, plcCoils, panelSim, holdTimers, staleTimers>>
       ELSE LET r == PumpkinSet(Stores, idx, TRUE, o) IN
            /\ State' = [State EXCEPT !.pumpkins = r.pumpkins]
            /\ plcCoils' = r.plc
            /\ panelSim' = r.sim
            /\ holdTimers' = IF r.raised THEN holdTimers
                             ELSE StartHoldTimeout(holdTimers, idx)
            /\ staleTimers' = staleTimers
            /\ last' = [op |-> "pumpkin_press", idx |-> idx,
                        result |-> IF r.raised THEN "raised" ELSE "on",
                        writes |-> r.writes]
  /\ faults' = Faulted(o)
  /\ UNCHANGED <<procAlive, configVars, readerVars, threadVars, showVars>>

\* pumpkin_release
PumpkinRelease(idx, o) ==
  /\ procAlive
  /\ IF idx < 0 \/ idx >= NumChannels
       THEN /\ last' = [op |-> "pumpkin_release", idx |-> idx,
                        result |-> "invalid_index", writes |-> {}]
            /\ UNCHANGED <<State, plcCoils, panelSim, staleTimers>>
       ELSE LET r == PumpkinSet(Stores, idx, FALSE, o) IN
            /\ State' = [State EXCEPT !.pumpkins = r.pumpkins]
            /\ staleTimers' = StaleAfter(r.pumpkins, holdTimers, staleTimers)
            /\ plcCoils' = r.plc
            /\ panelSim' = r.sim
            /\ last' = [op |-> "pumpkin_release", idx |-> idx,
                        result |-> IF r.raised THEN "raised" ELSE "off",
                        writes |-> r.writes]
  /\ faults' = Faulted(o)
  /\ UNCHANGED <<holdTimers, procAlive, configVars, readerVars, threadVars, showVars>>

\* killer, the thread of _start_hold_timeout, once its sleep is over: a
\* pumpkin that STATE records On is turned off by _pumpkin_off.
HoldTimeout(idx, o) ==
  /\ procAlive
  /\ holdTimers[idx] > 0
  /\ holdTimers' = [holdTimers EXCEPT ![idx] = @ - 1]
  /\ IF ~State.pumpkins[idx]
       THEN /\ last' = [op |-> "hold_timeout", idx |-> idx,
                        result |-> "idle", writes |-> {}]
            /\ UNCHANGED <<State, plcCoils, panelSim>>
       ELSE LET r == PumpkinSet(Stores, idx, FALSE, o) IN
            /\ State' = [State EXCEPT !.pumpkins = r.pumpkins]
            /\ plcCoils' = r.plc
            /\ panelSim' = r.sim
            /\ last' = [op |-> "hold_timeout", idx |-> idx,
                        result |-> IF r.raised THEN "raised" ELSE "off",
                        writes |-> r.writes]
  /\ staleTimers' = StaleAfter(State'.pumpkins, holdTimers',
                               OldestWoke(staleTimers, idx))
  /\ faults' = Faulted(o)
  /\ UNCHANGED <<procAlive, configVars, readerVars, threadVars, showVars>>

\* The loop of _all_off_and_disarm from pumpkin i on: an exception ends it.
RECURSIVE SweepFrom(_, _, _)
SweepFrom(i, st, outs) ==
  IF i = NumChannels \/ st.raised THEN st
  ELSE LET coil == PUMPKIN_COIL_LIST[i] IN
       IF ~Truthy(coil) THEN SweepFrom(i + 1, st, outs)
       ELSE LET w == PanelSetCoil(st, coil, FALSE, outs[i])
                wr == [w EXCEPT !.writes = @ \cup {<<coil, FALSE>>}]
            IN IF PanelOutcome(outs[i]) = "raise"
                 THEN [wr EXCEPT !.raised = TRUE]
                 ELSE SweepFrom(i + 1, [wr EXCEPT !.pumpkins[i] = FALSE], outs)

\* _all_off_and_disarm: one try block around the sweep and the disarm.
AllOffAndDisarm(st, outs) ==
  LET swept == SweepFrom(0, st, outs) IN
  IF swept.raised THEN swept ELSE IgniterSet(swept, FALSE, outs[NumChannels])

\* _shutdown (atexit): all off and disarm, then the process is gone and its
\* daemon threads with it.
Shutdown(outs) ==
  /\ procAlive
  /\ LET r == AllOffAndDisarm(Stores, outs) IN
       /\ State' = [igniter_armed |-> r.armed, pumpkins |-> r.pumpkins]
       /\ plcCoils' = r.plc
       /\ panelSim' = r.sim
       /\ last' = [op |-> "shutdown", idx |-> None,
                   result |-> IF r.raised THEN "raised" ELSE "ok",
                   writes |-> r.writes]
  /\ procAlive' = FALSE
  /\ faults' = IF \E i \in DOMAIN outs : outs[i] # "ok" THEN faults + 1 ELSE faults
  /\ UNCHANGED <<holdTimers, staleTimers, configVars, readerVars, threadVars, showVars>>

\* A control-panel client disconnects: the server registers the events
\* connect, toggle_igniter, pumpkin_press, pumpkin_release and toggle_dryrun,
\* and no handler for disconnect, so nothing runs on the server.
ClientDisconnect ==
  /\ procAlive
  /\ last' = [op |-> "disconnect", idx |-> None, result |-> "none", writes |-> {}]
  /\ UNCHANGED <<State, plcCoils, panelSim, holdTimers, staleTimers, procAlive, faults,
                 configVars, readerVars, threadVars, showVars>>

\* Indices a client can send: the four pumpkins and an invalid one.
PressInputs == 0 .. NumChannels

\* The outcomes of the five writes of a sweep: at most one of them fails.
SweepOutcomes ==
  { outs \in [0 .. NumChannels -> WriteOutcomes] :
      Cardinality({i \in 0 .. NumChannels : outs[i] # "ok"}) <= 1 }

NextPanel ==
  \/ \E d \in BOOLEAN, o \in WriteOutcomes : ToggleIgniter(d, o)
  \/ \E i \in PressInputs, o \in WriteOutcomes :
       (PressGuard(i) # "go" => o = "ok") /\ PumpkinPress(i, o)
  \/ \E i \in PressInputs, o \in WriteOutcomes :
       (i \notin Channels => o = "ok") /\ PumpkinRelease(i, o)
  \/ \E i \in Channels, o \in WriteOutcomes :
       (~State.pumpkins[i] => o = "ok") /\ HoldTimeout(i, o)
  \/ ClientDisconnect
  \/ \E outs \in SweepOutcomes : Shutdown(outs)

SpecPanel == Init /\ [][NextPanel]_vars

\* -------------------------------------------------- the panel's threads
\* The same handlers step by step: a context is inside plc.set_coil ("write"),
\* then between the write and the store into STATE ("store").  Event handlers
\* run one at a time (the cooperative server); every killer is a thread of
\* its own.  No write fails here.
\* Largest pumpkin index the events of this specification address.
MaxThreadChannel == 1
ThreadChannels == 0 .. MaxThreadChannel

HandlerOps == {"pumpkin_press", "pumpkin_release", "toggle_igniter", "toggle_dryrun"}

AllOk == [i \in 0 .. NumChannels |-> "ok"]

\* The coil and the value of the handler's set_coil.
HandlerCoil(h) ==
  IF h.op = "toggle_igniter" THEN IGNITER_SHUTOFF ELSE PUMPKIN_COIL_LIST[h.idx]
HandlerValue(h) == IF h.op = "toggle_igniter" THEN ~h.arg ELSE h.arg

\* An event arrives and its handler runs up to its first set_coil:
\* pumpkin_press passes its guard, _set_dryrun (toggle_dryrun) finds a
\* different mode and no show running and takes PLC_LOCK; the other handlers
\* take no lock.
HandlerEnter(op, idx, arg) ==
  /\ procAlive
  /\ threads.handler.pc = "idle"
  /\ CASE op = "pumpkin_press" ->
            /\ PressGuard(idx) = "go" /\ arg
            /\ MAX_HOLD_SECONDS > 0 => PendingBelow(NumChannels) < MaxTimers
       [] op = "pumpkin_release" -> ~arg
       [] op = "toggle_igniter" -> idx = 0
       [] op = "toggle_dryrun" ->
            /\ idx = 0 /\ arg # DRYRUN
            /\ show.status # "running"
            /\ PLC_LOCK = "free"
  /\ PLC_LOCK' = IF op = "toggle_dryrun" THEN "handler" ELSE PLC_LOCK
  /\ threads' = [threads EXCEPT !.handler =
                   [op |-> op, idx |-> idx, arg |-> arg, pc |-> "write"]]
  /\ UNCHANGED <<configVars, panelVars, showVars, readerVars, otherShow>>

\* The handler's set_coil returns; for _set_dryrun, the sweep
\* _all_off_and_disarm on the current controller.
HandlerSetCoil ==
  LET h == threads.handler
      r == IF h.op = "toggle_dryrun" THEN AllOffAndDisarm(Stores, AllOk)
           ELSE PanelSetCoil(Stores, HandlerCoil(h), HandlerValue(h), "ok")
  IN /\ procAlive
     /\ h.pc = "write"
     /\ plcCoils' = r.plc
     /\ panelSim' = r.sim
     /\ State' = [igniter_armed |-> r.armed, pumpkins |-> r.pumpkins]
     /\ threads' = [threads EXCEPT !.handler.pc = "store"]
     /\ UNCHANGED <<holdTimers, staleTimers, procAlive, last, faults, PLC_LOCK,
                    configVars, showVars, readerVars, otherShow>>

\* The handler stores into STATE and returns: _pumpkin_on also starts the
\* hold timeout; _set_dryrun swaps the controller, resets STATE and leaves
\* PLC_LOCK.
HandlerStore ==
  LET h == threads.handler IN
  /\ procAlive
  /\ h.pc = "store"
  /\ State' =
       CASE h.op = "toggle_igniter" -> [State EXCEPT !.igniter_armed = h.arg]
         [] h.op = "toggle_dryrun" ->
              [igniter_armed |-> FALSE, pumpkins |-> [i \in Channels |-> FALSE]]
         [] OTHER -> [State EXCEPT !.pumpkins[h.idx] = h.arg]
  /\ holdTimers' = IF h.op = "pumpkin_press"
                     THEN StartHoldTimeout(holdTimers, h.idx) ELSE holdTimers
  /\ staleTimers' = StaleAfter(State'.pumpkins, holdTimers', staleTimers)
  /\ DRYRUN' = IF h.op = "toggle_dryrun" THEN h.arg ELSE DRYRUN
  /\ panelSim' = IF h.op = "toggle_dryrun" /\ h.arg
                   THEN PygameInit(PUMPKIN_COILS) ELSE panelSim
  /\ PLC_LOCK' = IF h.op = "toggle_dryrun" THEN "free" ELSE PLC_LOCK
  /\ last' = [op |-> h.op, idx |-> h.idx, result |-> "ok",
              writes |-> IF h.op = "toggle_dryrun" THEN {}
                         ELSE {<<HandlerCoil(h), HandlerValue(h)>>}]
  /\ threads' = [threads EXCEPT !.handler = IdleHandler]
  /\ UNCHANGED <<plcCoils, procAlive, faults, PUMPKIN_COILS, IGNITER_SHUTOFF,
                 ARM_REQUIRED, MAX_HOLD_SECONDS, showVars, readerVars, otherShow>>

\* killer wakes from its sleep and reads STATE: it goes into _pumpkin_off
\* when the pumpkin is recorded On, and ends otherwise.
KillerWake(idx) ==
  /\ procAlive
  /\ holdTimers[idx] > 0
  /\ threads.killer[idx] = "idle"
  /\ holdTimers' = [holdTimers EXCEPT ![idx] = @ - 1]
  /\ staleTimers' = OldestWoke(staleTimers, idx)
  /\ threads' = [threads EXCEPT !.killer[idx] =
                   IF State.pumpkins[idx] THEN "write" ELSE "idle"]
  /\ UNCHANGED <<State, plcCoils, panelSim, procAlive, last, faults, PLC_LOCK,
                 configVars, showVars, readerVars, otherShow>>

\* killer's set_coil(coil, False) returns.
KillerSetCoil(idx) ==
  LET r == PanelSetCoil(Stores, PUMPKIN_COIL_LIST[idx], FALSE, "ok") IN
  /\ procAlive
  /\ threads.killer[idx] = "write"
  /\ plcCoils' = r.plc
  /\ panelSim' = r.sim
  /\ threads' = [threads EXCEPT !.killer[idx] = "store"]
  /\ UNCHANGED <<State, holdTimers, staleTimers, procAlive, last, faults, PLC_LOCK,
                 configVars, showVars, readerVars, otherShow>>

\* killer stores STATE["pumpkins"][idx] = False and ends.
KillerStore(idx) ==
  /\ procAlive
  /\ threads.killer[idx] = "store"
  /\ State' = [State EXCEPT !.pumpkins[idx] = FALSE]
  /\ last' = [op |-> "hold_timeout", idx |-> idx, result |-> "off",
              writes |-> {<<PUMPKIN_COIL_LIST[idx], FALSE>>}]
  /\ threads' = [threads EXCEPT !.killer[idx] = "idle"]
  /\ staleTimers' = StaleAfter(State'.pumpkins, holdTimers, staleTimers)
  /\ UNCHANGED <<plcCoils, panelSim, holdTimers, procAlive, faults, PLC_LOCK,
                 configVars, showVars, readerVars, otherShow>>

\* toggle_igniter(armed = False) handled while another event's handler is
\* under way: with async_mode "threading" (no eventlet installed, or
\* ASYNC_MODE set) every event is handled in a thread of its own, and no
\* handler takes a lock.  The whole handler runs between two steps of the
\* other one.
ConcurrentDisarm ==
  /\ procAlive
  /\ threads.handler.pc \in {"write", "store"}
  /\ threads.handler.op # "toggle_dryrun"
  /\ LET r == IgniterSet(Stores, FALSE, "ok") IN
       /\ State' = [State EXCEPT !.igniter_armed = r.armed]
       /\ plcCoils' = r.plc
       /\ panelSim' = r.sim
       /\ last' = [op |-> "toggle_igniter", idx |-> None, result |-> "ok",
                   writes |-> r.writes]
  /\ UNCHANGED <<holdTimers, staleTimers, procAlive, faults, configVars,
                 showVars, readerVars, threadVars>>

NextThreads ==
  \/ \E op \in HandlerOps, idx \in ThreadChannels, arg \in BOOLEAN :
       HandlerEnter(op, idx, arg)
  \/ HandlerSetCoil
  \/ HandlerStore
  \/ \E idx \in ThreadChannels : KillerWake(idx)
  \/ \E idx \in ThreadChannels : KillerSetCoil(idx)
  \/ \E idx \in ThreadChannels : KillerStore(idx)
  \/ ConcurrentDisarm

InitThreadsSpec == Init /\ MAX_HOLD_SECONDS > 0

SpecThreads == InitThreadsSpec /\ [][NextThreads]_vars

\* ------------------------------------------------------------- schedules
\* A pulse as the readers build it: end = start + note_duration.
Pulse(start, d, p) == [start |-> start, end |-> start + d, pumpkin |-> p]

\* The note indices of a chart of at most MaxPulses notes that yield a pulse:
\* the legacy reader skips a malformed note, and the notes after it keep
\* their index.
NoteIndexSets == (SUBSET (0 .. (MaxPulses - 1))) \ {{}}

\* The k-th smallest element of a set of indices.
RECURSIVE KthIndex(_, _)
KthIndex(S, k) ==
  LET m == CHOOSE x \in S : \A y \in S : x <= y
  IN IF k = 1 THEN m ELSE KthIndex(S \ {m}, k - 1)

\* The schedules extract_notes can return: one pulse per well-formed note in
\* the chart's order (the readers do not sort), one note duration for the
\* whole schedule, pumpkin = i % 4 for the note's index i in the chart.
Schedules ==
  UNION { { [k \in 1 .. Cardinality(S) |->
               Pulse(st[k], d, KthIndex(S, k) % NumChannels)] :
              st \in [1 .. Cardinality(S) -> 0 .. MaxStart] } :
          S \in NoteIndexSets, d \in 1 .. MaxDuration }

\* The schedules a caller can hand to run_schedule with a pulse whose pumpkin
\* index is no key of PUMPKIN_COILS (the readers never build one).
UnmappedSchedules ==
  UNION { { [sched EXCEPT ![k].pumpkin = NumChannels] : k \in 1 .. Len(sched) } :
          sched \in Schedules }

\* The schedules of a chart whose notes 0 and 4 yield a pulse and whose
\* notes between them are malformed (skipped by the legacy reader) or filtered
\* out: two pulses on pumpkin 0 = 4 % 4.
SameChannelSchedules ==
  { [k \in 1 .. 2 |-> Pulse(st[k], d, (NumChannels * (k - 1)) % NumChannels)] :
      st \in [1 .. 2 -> 0 .. MaxStart], d \in 1 .. MaxDuration }

\* The schedules of the shows the model follows.
ShowSchedules == Schedules \cup UnmappedSchedules \cup SameChannelSchedules

\* The schedules of the shows of the server specifications: one pulse.
ServerSchedules == { sched \in Schedules : Len(sched) = 1 }

\* The last clock tick the model follows: every pulse has ended by then.
MaxClock == MaxStart + MaxDuration

\* PUMPKIN_COILS.get(pumpkin)
PumpkinCoil(p) == IF p \in DOMAIN PUMPKIN_COILS THEN PUMPKIN_COILS[p] ELSE None

\* list.sort(key=time) is stable: an event goes after those of equal time.
RECURSIVE InsertByTime(_, _)
InsertByTime(sorted, e) ==
  IF sorted = <<>> THEN <<e>>
  ELSE IF Head(sorted).time <= e.time
         THEN <<Head(sorted)>> \o InsertByTime(Tail(sorted), e)
         ELSE <<e>> \o sorted

RECURSIVE SortByTime(_)
SortByTime(evs) ==
  IF evs = <<>> THEN <<>>
  ELSE InsertByTime(SortByTime(SubSeq(evs, 1, Len(evs) - 1)), evs[Len(evs)])

\* PygamePLCController.run_schedule's event list before sorting: for every
\* pulse with a mapped coil, switch on at start and off at end.
RECURSIVE PulseEvents(_)
PulseEvents(schedule) ==
  IF schedule = <<>> THEN <<>>
  ELSE LET pulse == Head(schedule)
           coil == PumpkinCoil(pulse.pumpkin)
       IN (IF coil = None THEN <<>>
           ELSE << [time |-> pulse.start, coil |-> coil, state |-> TRUE],
                   [time |-> pulse.end, coil |-> coil, state |-> FALSE] >>)
          \o PulseEvents(Tail(schedule))

SortedEvents(schedule) == SortByTime(PulseEvents(schedule))

\* ------------------------------------------------------------ show runner
Terminal == {"done", "stopped", "error"}

\* api_show_start.set_status
SetStatus(sh, state) ==
  [sh EXCEPT !.status = state,
             !.terminals = IF state \in Terminal THEN Append(@, state) ELSE @]

\* thr.is_alive()
DispAlive == disp.pc \notin {"none", "finished", "dead_write", "dead_clock"}

\* api_show_start: a new SHOWS entry is queued and its thread started.  The
\* model follows one show at a time, and a later show only after a show that
\* ended during startup.
ApiShowStart ==
  /\ procAlive
  /\ show.pc = "none" \/ (show.pc = "exited" /\ show.cause # "none")
  /\ show' = [NoShow EXCEPT !.status = "queued", !.pc = "begin",
                           !.is_dryrun = DRYRUN]
  /\ UNCHANGED <<disp, showSim, stream, applied, panelVars, configVars, readerVars, threadVars>>

\* api_show_stop: sets the stop event of a show that has not finished.
ApiShowStop ==
  /\ procAlive
  /\ show.status \in {"queued", "running"}
  /\ ~show.stop_event
  /\ show' = [show EXCEPT !.stop_event = TRUE]
  /\ UNCHANGED <<disp, showSim, stream, applied, panelVars, configVars, readerVars, threadVars>>

\* run_blocking_action without the test for an empty schedule.
ShowBeginNoEmptyTest(sched) ==
  /\ procAlive
  /\ show.pc = "begin"
  /\ show' = [SetStatus(show, "running") EXCEPT !.schedule = sched, !.pc = "plc"]
  /\ UNCHANGED <<disp, showSim, stream, applied, panelVars, configVars, readerVars, threadVars>>

\* What run_blocking_action can find missing before it has a schedule: the
\* map file, Info.dat, the BPM or the song filename of the info document, the
\* song file in the archive.
StartupFailures == {"map_file", "info_file", "no_bpm", "song_name", "song_file"}

\* run_blocking_action arming the igniter before it looks at the archive.
ShowBeginFailsAfterArming(cause) ==
  /\ procAlive
  /\ show.pc = "begin"
  /\ plcCoils' = PlcSetCoil(plcCoils, IGNITER_SHUTOFF, FALSE, "ok")
  /\ show' = [SetStatus(SetStatus(show, "running"), "error")
                EXCEPT !.pc = "exited", !.cause = cause]
  /\ UNCHANGED <<disp, showSim, stream, applied, State, panelSim, holdTimers, staleTimers,
                 procAlive, last, faults, configVars, readerVars, threadVars>>

\* run_blocking_action on an archive that lacks something: a missing map,
\* info or song raises FileNotFoundError; with no BPM, bpm is None and
\* extract_notes raises TypeError at its first note or returns no pulse, and
\* the test for an empty schedule raises.  The outer handler sets "error".
ShowBeginFails(cause) ==
  /\ procAlive
  /\ show.pc = "begin"
  /\ show' = [SetStatus(SetStatus(show, "running"), "error")
                EXCEPT !.pc = "exited", !.cause = cause]
  /\ UNCHANGED <<disp, showSim, stream, applied, panelVars, configVars, readerVars, threadVars>>

\* run_blocking_action up to the schedule, on an archive that lacks nothing:
\* sched = <<>> stands for a chart that yields no notes.
ShowBegin(sched) ==
  /\ procAlive
  /\ show.pc = "begin"
  /\ show' = IF sched = <<>>
               THEN [SetStatus(SetStatus(show, "running"), "error")
                       EXCEPT !.pc = "exited", !.cause = "no_notes"]
               ELSE [SetStatus(show, "running")
                       EXCEPT !.schedule = sched, !.pc = "plc"]
  /\ UNCHANGED <<disp, showSim, stream, applied, panelVars, configVars, readerVars, threadVars>>

\* The controller of the show: a fresh PygamePLCController in dry run; else
\* PLCController() (which raises when it cannot connect), then igniter_arm.
ShowOpenPlc(connected, o) ==
  /\ procAlive
  /\ show.pc = "plc"
  /\ IF show.is_dryrun
       THEN /\ showSim' = PygameInit(PUMPKIN_COILS)
            /\ disp' = [NoDisp EXCEPT !.running = TRUE]
            /\ show' = [show EXCEPT !.pc = "play"]
            /\ UNCHANGED <<plcCoils, faults>>
       ELSE IF ~connected
         THEN /\ show' = [SetStatus(show, "error") EXCEPT !.pc = "exited"]
              /\ UNCHANGED <<plcCoils, faults, disp, showSim>>
         ELSE /\ plcCoils' = PlcSetCoil(plcCoils, IGNITER_SHUTOFF, FALSE, o)
              /\ faults' = Faulted(o)
              /\ show' = IF o = "raise"
                           THEN [show EXCEPT !.exc = TRUE, !.pc = "exit"]
                           ELSE [show EXCEPT !.pc = "play"]
              /\ UNCHANGED <<disp, showSim>>
  /\ UNCHANGED <<stream, applied, State, panelSim, holdTimers, staleTimers, procAlive, last,
                 configVars, readerVars, threadVars>>

\* play_audio, the schedule thread's start and set_status("running").
ShowPlay(ok) ==
  /\ procAlive
  /\ show.pc = "play"
  /\ IF ok
       THEN /\ stream' = [open |-> TRUE, closed |-> FALSE, ended |-> FALSE, time |-> 0]
            /\ disp' = [disp EXCEPT !.pc = IF show.is_dryrun THEN "check" ELSE "sleep_on",
                                    !.idx = 1]
            /\ show' = [SetStatus(show, "running") EXCEPT !.pc = "monitor"]
       ELSE /\ stream' = stream
            /\ disp' = IF show.is_dryrun THEN [disp EXCEPT !.running = FALSE] ELSE disp
            /\ show' = IF show.is_dryrun
                         THEN [SetStatus(show, "error") EXCEPT !.pc = "exited"]
                         ELSE [show EXCEPT !.exc = TRUE, !.pc = "exit"]
  /\ UNCHANGED <<showSim, applied, panelVars, configVars, readerVars, threadVars>>

\* plc.close(): the simulated controller stops its loops; the PLC client is
\* closed (a later write reconnects or raises).
PlcClose(d) == IF show.is_dryrun THEN [d EXCEPT !.running = FALSE] ELSE d

\* One turn of "while thr.is_alive()": the thread has ended (done), or the
\* stop event is set (close the controller and the stream, then join).
ShowMonitor ==
  /\ procAlive
  /\ show.pc = "monitor"
  /\ DispAlive => show.stop_event
  /\ show' = IF DispAlive
               THEN [show EXCEPT !.pc = "join"]
               ELSE [SetStatus(show, "done")
                       EXCEPT !.pc = IF show.is_dryrun THEN "exited" ELSE "exit"]
  /\ stream' = [stream EXCEPT !.closed = TRUE]
  /\ disp' = PlcClose(disp)
  /\ UNCHANGED <<showSim, applied, panelVars, configVars, readerVars, threadVars>>

\* thr.join(timeout=2.0), then set_status("stopped") and return. The
\* simulated dispatcher tests self.running on every turn and has ended by
\* then; the PLC dispatcher may still be asleep when the timeout expires.
ShowJoin ==
  /\ procAlive
  /\ show.pc = "join"
  /\ show.is_dryrun => ~DispAlive
  /\ show' = [SetStatus(show, "stopped")
                EXCEPT !.pc = IF show.is_dryrun THEN "exited" ELSE "exit"]
  /\ UNCHANGED <<disp, showSim, stream, applied, panelVars, configVars, readerVars, threadVars>>

\* The coils PLCController.__exit__ writes: "for coil in PUMPKIN_COILS" walks
\* the dictionary's keys.
ExitSweepCoils == [k \in 1 .. NumChannels |-> k - 1]

\* The sweep of PLCController.__exit__ from the k-th coil on.
RECURSIVE ExitSweepFrom(_, _, _)
ExitSweepFrom(k, st, outs) ==
  IF k > Len(ExitSweepCoils) \/ st.raised THEN st
  ELSE ExitSweepFrom(k + 1,
         [coils |-> PlcSetCoil(st.coils, ExitSweepCoils[k], FALSE, outs[k - 1]),
          raised |-> outs[k - 1] = "raise"], outs)

\* Leaving "with PLCController(...) as plc": __exit__ sweeps and closes. An
\* exception of the sweep, or the one the block is left on, reaches the outer
\* handler, which sets "error".
ShowExit(outs) ==
  /\ procAlive
  /\ show.pc = "exit"
  /\ LET r == ExitSweepFrom(1, [coils |-> plcCoils, raised |-> FALSE], outs) IN
       /\ plcCoils' = r.coils
       /\ show' = IF r.raised \/ show.exc
                    THEN [SetStatus(show, "error") EXCEPT !.pc = "exited"]
                    ELSE [show EXCEPT !.pc = "exited"]
  /\ faults' = IF \E i \in DOMAIN outs : outs[i] # "ok" THEN faults + 1 ELSE faults
  /\ UNCHANGED <<disp, showSim, stream, applied, State, panelSim, holdTimers, staleTimers,
                 procAlive, last, configVars, readerVars, threadVars>>

\* run_pygame_loop: the window is closed (pygame.QUIT).
PygameQuit ==
  /\ procAlive
  /\ show.is_dryrun
  /\ show.pc \in {"play", "monitor"}
  /\ disp.running
  /\ disp' = [disp EXCEPT !.running = FALSE]
  /\ UNCHANGED <<show, showSim, stream, applied, panelVars, configVars, readerVars, threadVars>>

\* ------------------------------------------------------------ dispatchers
\* Reading stream.time: a closed stream raises or yields a stale value.
TimeReads == IF stream.closed THEN {"value", "raise"} ELSE {"value"}

\* PygamePLCController.run_schedule: the loop test.
PygameCheck ==
  /\ procAlive
  /\ disp.pc = "check"
  /\ disp' = [disp EXCEPT !.pc =
                IF disp.idx <= Len(SortedEvents(show.schedule)) /\ disp.running
                  THEN "apply" ELSE "finished"]
  /\ UNCHANGED <<show, showSim, stream, applied, panelVars, configVars, readerVars, threadVars>>

\* PygamePLCController.run_schedule: the loop body reads the clock and
\* applies the event when it is due.
PygameApply(r) ==
  /\ procAlive
  /\ disp.pc = "apply"
  /\ LET e == SortedEvents(show.schedule)[disp.idx] IN
       IF r = "raise"
         THEN /\ disp' = [disp EXCEPT !.pc = "dead_clock"]
              /\ UNCHANGED <<showSim, applied>>
         ELSE IF stream.time >= e.time
           THEN /\ showSim' = PygameSetCoil(showSim, e.coil, e.state)
                /\ applied' = Append(applied, e)
                /\ disp' = [disp EXCEPT !.pc = "check", !.idx = @ + 1]
           ELSE /\ disp' = [disp EXCEPT !.pc = "check"]
                /\ UNCHANGED <<showSim, applied>>
  /\ UNCHANGED <<show, stream, panelVars, configVars, readerVars, threadVars>>

Max(a, b) == IF a >= b THEN a ELSE b

\* PLCController.run_schedule: time.sleep(max(0, t - stream.time)) before a
\* write; a pulse without a coil is skipped.
PlcSleep(r) ==
  /\ procAlive
  /\ disp.pc \in {"sleep_on", "sleep_off"}
  /\ LET pulse == show.schedule[disp.idx]
         t == IF disp.pc = "sleep_on" THEN pulse.start ELSE pulse.end
     IN IF disp.pc = "sleep_on" /\ PumpkinCoil(pulse.pumpkin) = None
          THEN disp' = IF disp.idx = Len(show.schedule)
                         THEN [disp EXCEPT !.pc = "finished"]
                         ELSE [disp EXCEPT !.idx = @ + 1]
          ELSE IF r = "raise"
            THEN disp' = [disp EXCEPT !.pc = "dead_clock"]
            ELSE disp' = [disp EXCEPT
                            !.pc = IF disp.pc = "sleep_on" THEN "wait_on" ELSE "wait_off",
                            !.sleep = Max(0, t - stream.time)]
  /\ UNCHANGED <<show, showSim, stream, applied, panelVars, configVars, readerVars, threadVars>>

\* PLCController.run_schedule: the write after the sleep, on at the pulse's
\* start and off at its end, one pulse after the other.
PlcWrite(o) ==
  /\ procAlive
  /\ disp.pc \in {"wait_on", "wait_off"}
  /\ disp.sleep = 0
  /\ LET pulse == show.schedule[disp.idx]
         on == disp.pc = "wait_on"
         coil == PumpkinCoil(pulse.pumpkin)
     IN /\ plcCoils' = PlcSetCoil(plcCoils, coil, on, o)
        /\ applied' = Append(applied,
              [time |-> IF on THEN pulse.start ELSE pulse.end,
               coil |-> coil, state |-> on])
        /\ disp' = IF o = "raise" THEN [disp EXCEPT !.pc = "dead_write"]
                   ELSE IF on THEN [disp EXCEPT !.pc = "sleep_off"]
                   ELSE IF disp.idx = Len(show.schedule)
                     THEN [disp EXCEPT !.pc = "finished"]
                     ELSE [disp EXCEPT !.pc = "sleep_on", !.idx = @ + 1]
  /\ faults' = Faulted(o)
  /\ UNCHANGED <<show, showSim, stream, State, panelSim, holdTimers, staleTimers, procAlive,
                 last, configVars, readerVars, threadVars>>

\* stream.time advances while the stream plays: it is open, not closed, and
\* its callback has not stopped it.
ClockRuns ==
  stream.open /\ ~stream.closed /\ ~stream.ended /\ stream.time < MaxClock

\* Time passes: the playing stream's clock advances and a sleeping thread's
\* remaining sleep shrinks.
Tick ==
  /\ procAlive
  /\ ClockRuns \/ disp.sleep > 0
  /\ stream' = IF ClockRuns THEN [stream EXCEPT !.time = @ + 1] ELSE stream
  /\ disp' = IF disp.sleep > 0 THEN [disp EXCEPT !.sleep = @ - 1] ELSE disp
  /\ UNCHANGED <<show, showSim, applied, panelVars, configVars, readerVars, threadVars>>

\* The outcomes of the four writes of PLCController.__exit__: at most one fails.
ExitOutcomes ==
  { outs \in [Channels -> WriteOutcomes] :
      Cardinality({i \in Channels : outs[i] # "ok"}) <= 1 }

\* A show under the simulated controller (DRYRUN), with the panel's igniter
\* toggle and stop request.
NextShowDry ==
  \/ ApiShowStart
  \/ ApiShowStop
  \/ \E sched \in ShowSchedules \cup {<<>>} : ShowBegin(sched)
  \/ \E cause \in StartupFailures : ShowBeginFails(cause)
  \/ ShowOpenPlc(TRUE, "ok")
  \/ \E ok \in BOOLEAN : ShowPlay(ok)
  \/ ShowMonitor
  \/ ShowJoin
  \/ PygameQuit
  \/ PygameCheck
  \/ \E r \in TimeReads : PygameApply(r)
  \/ Tick
  \/ \E d \in BOOLEAN : ToggleIgniter(d, "ok")

\* A show on the PLC, with the panel's igniter toggle and stop request.
NextShowPlc ==
  \/ ApiShowStart
  \/ ApiShowStop
  \/ \E sched \in ShowSchedules \cup {<<>>} : ShowBegin(sched)
  \/ \E cause \in StartupFailures : ShowBeginFails(cause)
  \/ \E c \in BOOLEAN, o \in WriteOutcomes : (~c => o = "ok") /\ ShowOpenPlc(c, o)
  \/ \E ok \in BOOLEAN : ShowPlay(ok)
  \/ ShowMonitor
  \/ ShowJoin
  \/ \E outs \in ExitOutcomes : ShowExit(outs)
  \/ \E r \in TimeReads : PlcSleep(r)
  \/ \E o \in WriteOutcomes : PlcWrite(o)
  \/ Tick
  \/ \E d \in BOOLEAN, o \in WriteOutcomes : ToggleIgniter(d, o)

InitShowDry == Init /\ DRYRUN /\ ARM_REQUIRED /\ MAX_HOLD_SECONDS = 0
InitShowPlc == Init /\ ~DRYRUN /\ ARM_REQUIRED /\ MAX_HOLD_SECONDS = 0

SpecShowDry == InitShowDry /\ [][NextShowDry]_vars
SpecShowPlc == InitShowPlc /\ [][NextShowPlc]_vars

\* ------------------------------------------- a show under fair scheduling
\* play_audio's callback runs out of samples and raises CallbackStop: the
\* stream is no longer active and its clock stands still from then on.
StreamEnds ==
  /\ procAlive
  /\ stream.open /\ ~stream.closed /\ ~stream.ended
  /\ stream' = [stream EXCEPT !.ended = TRUE]
  /\ UNCHANGED <<show, disp, showSim, applied, panelVars, configVars, readerVars, threadVars>>

\* The steps of the show's worker thread (run_blocking_action).
ShowThreadStep ==
  \/ \E sched \in ServerSchedules \cup {<<>>} : ShowBegin(sched)
  \/ \E c \in BOOLEAN, o \in WriteOutcomes : (~c => o = "ok") /\ ShowOpenPlc(c, o)
  \/ \E ok \in BOOLEAN : ShowPlay(ok)
  \/ ShowMonitor
  \/ ShowJoin
  \/ \E outs \in ExitOutcomes : ShowExit(outs)

\* The steps of the schedule thread (run_schedule of either controller).
ScheduleThreadStep ==
  \/ PygameCheck
  \/ \E r \in TimeReads : PygameApply(r)
  \/ \E r \in TimeReads : PlcSleep(r)
  \/ \E o \in WriteOutcomes : PlcWrite(o)

\* A show of one pulse under either controller, with the stop request, the
\* closing of the simulation window and the end of the audio.
NextShowFair ==
  \/ ApiShowStart
  \/ ApiShowStop
  \/ ShowThreadStep
  \/ ScheduleThreadStep
  \/ PygameQuit
  \/ Tick
  \/ StreamEnds

\* Both threads get their turns and time passes; nobody is obliged to ask
\* for a stop or to close the window, and the audio need not run out.
SpecShowFair ==
  /\ InitShowDry \/ InitShowPlc
  /\ [][NextShowFair]_vars
  /\ WF_vars(ShowThreadStep)
  /\ WF_vars(ScheduleThreadStep)
  /\ WF_vars(Tick)

\* ------------------------------------------------------- a second show
\* api_show_start called again: it looks at no other SHOWS entry, registers a
\* new one as queued and starts its thread.
ApiShowStartAgain ==
  /\ procAlive
  /\ show.pc # "none"
  /\ otherShow.pc = "none"
  /\ otherShow' = [status |-> "queued", pc |-> "begin"]
  /\ UNCHANGED <<threads, PLC_LOCK, configVars, panelVars, showVars, readerVars>>

\* The second show's run_blocking_action up to its dispatcher's start, on an
\* archive that lacks nothing: its own PLCController, igniter_arm, play_audio.
OtherShowBegin ==
  /\ procAlive
  /\ otherShow.pc = "begin"
  /\ plcCoils' = PlcSetCoil(plcCoils, IGNITER_SHUTOFF, FALSE, "ok")
  /\ otherShow' = [status |-> "running", pc |-> "on"]
  /\ UNCHANGED <<threads, PLC_LOCK, configVars, State, panelSim, holdTimers,
                 staleTimers, procAlive, last, faults, showVars, readerVars>>

\* The second show's dispatcher on its schedule, one pulse on pumpkin 0: the
\* On write, then the Off write, by its own stream's clock.
OtherShowWrite ==
  /\ procAlive
  /\ otherShow.pc \in {"on", "off"}
  /\ plcCoils' = PlcSetCoil(plcCoils, PumpkinCoil(0), otherShow.pc = "on", "ok")
  /\ otherShow' = [otherShow EXCEPT !.pc = IF @ = "on" THEN "off" ELSE "exit"]
  /\ UNCHANGED <<threads, PLC_LOCK, configVars, State, panelSim, holdTimers,
                 staleTimers, procAlive, last, faults, showVars, readerVars>>

\* The second show ends: set_status("done") and the sweep of __exit__.
OtherShowExit ==
  /\ procAlive
  /\ otherShow.pc = "exit"
  /\ plcCoils' = ExitSweepFrom(1, [coils |-> plcCoils, raised |-> FALSE], AllOk).coils
  /\ otherShow' = [status |-> "done", pc |-> "exited"]
  /\ UNCHANGED <<threads, PLC_LOCK, configVars, State, panelSim, holdTimers,
                 staleTimers, procAlive, last, faults, showVars, readerVars>>

\* Two shows on the PLC.  No write fails.
NextShows ==
  \/ ApiShowStart
  \/ ApiShowStop
  \/ \E sched \in ServerSchedules \cup {<<>>} : ShowBegin(sched)
  \/ \E cause \in StartupFailures : ShowBeginFails(cause)
  \/ \E c \in BOOLEAN : ShowOpenPlc(c, "ok")
  \/ \E ok \in BOOLEAN : ShowPlay(ok)
  \/ ShowMonitor
  \/ ShowJoin
  \/ ShowExit(AllOk)
  \/ \E r \in TimeReads : PlcSleep(r)
  \/ PlcWrite("ok")
  \/ Tick
  \/ ApiShowStartAgain
  \/ OtherShowBegin
  \/ OtherShowWrite
  \/ OtherShowExit

SpecShows == InitShowPlc /\ [][NextShows]_vars

\* ------------------------------------------------- the command-line player
\* FireBeat/__main__.py with is_dryrun = False.  show holds main()'s locals:
\* pc is the place of the main thread, schedule what extract_notes returned.
\* main() up to the arm delay: PLCController() connects or raises, then
\* igniter_arm().  An exception other than KeyboardInterrupt ends the program.
CliArm(sched, connected, o) ==
  /\ procAlive
  /\ show.pc = "none"
  /\ plcCoils' = IF connected THEN PlcSetCoil(plcCoils, IGNITER_SHUTOFF, FALSE, o)
                  ELSE plcCoils
  /\ faults' = Faulted(o)
  /\ show' = [NoShow EXCEPT !.schedule = sched,
                            !.pc = IF connected /\ o # "raise"
                                     THEN "cli_armed" ELSE "cli_failed"]
  /\ UNCHANGED <<disp, showSim, stream, applied, State, panelSim, holdTimers,
                 staleTimers, procAlive, last, configVars, readerVars, threadVars>>

\* play_audio, then the thread t running plc.run_schedule is started (not a
\* daemon thread) and main() waits in t.join().
CliPlay ==
  /\ procAlive
  /\ show.pc = "cli_armed"
  /\ stream' = [open |-> TRUE, closed |-> FALSE, ended |-> FALSE, time |-> 0]
  /\ disp' = [NoDisp EXCEPT !.pc = "sleep_on"]
  /\ show' = [show EXCEPT !.pc = "cli_join"]
  /\ UNCHANGED <<showSim, applied, panelVars, configVars, readerVars, threadVars>>

\* t.join() returns: the next statement, schedule_thread.join(), names a
\* variable this branch never assigned, and the program ends on that error.
CliJoined ==
  /\ procAlive
  /\ show.pc = "cli_join"
  /\ ~DispAlive
  /\ show' = [show EXCEPT !.pc = "cli_failed"]
  /\ UNCHANGED <<disp, showSim, stream, applied, panelVars, configVars, readerVars, threadVars>>

\* KeyboardInterrupt in the main thread: a second PLCController connects (or
\* raises), igniter_disarm(), and __exit__ sweeps the valves Off and closes.
\* The thread t is left alone and the interpreter waits for it.
CliInterrupt(connected, outs) ==
  /\ procAlive
  /\ show.pc \in {"cli_armed", "cli_join"}
  /\ LET d == PlcSetCoil(plcCoils, IGNITER_SHUTOFF, TRUE, outs[NumChannels])
         r == ExitSweepFrom(1, [coils |-> d, raised |-> FALSE], outs)
     IN /\ plcCoils' = IF connected THEN r.coils ELSE plcCoils
        /\ last' = [op |-> "interrupt", idx |-> None,
                    result |-> IF ~connected \/ r.raised
                                  \/ outs[NumChannels] = "raise"
                                 THEN "raised" ELSE "ok",
                    writes |-> {}]
  /\ faults' = IF \E i \in DOMAIN outs : outs[i] # "ok" THEN faults + 1 ELSE faults
  /\ show' = [show EXCEPT !.pc = "cli_interrupted"]
  /\ UNCHANGED <<disp, showSim, stream, applied, State, panelSim, holdTimers,
                 staleTimers, procAlive, configVars, readerVars, threadVars>>

NextCli ==
  \/ \E sched \in ShowSchedules, c \in BOOLEAN, o \in WriteOutcomes :
       (~c => o = "ok") /\ CliArm(sched, c, o)
  \/ CliPlay
  \/ CliJoined
  \/ \E c \in BOOLEAN, outs \in SweepOutcomes :
       (~c => outs = AllOk) /\ CliInterrupt(c, outs)
  \/ \E r \in TimeReads : PlcSleep(r)
  \/ \E o \in WriteOutcomes : PlcWrite(o)
  \/ Tick

SpecCli == InitShowPlc /\ [][NextCli]_vars

\* ------------------------------------------------ the server's dry-run switch
\* _set_dryrun, called by toggle_dryrun: nothing to do for the mode already
\* set; refused while a SHOWS entry has status "running"; else the sweep
\* _all_off_and_disarm on the current controller (which swallows its own
\* exceptions), close, a new controller (PLCController raises when it cannot
\* connect, and the switch fails), DRYRUN = on and STATE reset.
SetDryrun(on, connected, outs) ==
  /\ procAlive
  /\ IF on = DRYRUN \/ show.status = "running" \/ otherShow.status = "running"
       THEN /\ last' = [op |-> "toggle_dryrun", idx |-> None,
                        result |-> IF on = DRYRUN THEN "same" ELSE "blocked",
                        writes |-> {}]
            /\ UNCHANGED <<State, plcCoils, panelSim, DRYRUN, faults>>
       ELSE LET r == AllOffAndDisarm(Stores, outs) IN
            /\ plcCoils' = r.plc
            /\ faults' = IF \E i \in DOMAIN outs : outs[i] # "ok"
                            THEN faults + 1 ELSE faults
            /\ IF ~on /\ ~connected
                 THEN /\ State' = [igniter_armed |-> r.armed, pumpkins |-> r.pumpkins]
                      /\ panelSim' = r.sim
                      /\ DRYRUN' = DRYRUN
                      /\ last' = [op |-> "toggle_dryrun", idx |-> None,
                                  result |-> "failed", writes |-> r.writes]
                 ELSE /\ State' = [igniter_armed |-> FALSE,
                                   pumpkins |-> [i \in Channels |-> FALSE]]
                      /\ panelSim' = IF on THEN PygameInit(PUMPKIN_COILS) ELSE r.sim
                      /\ DRYRUN' = on
                      /\ last' = [op |-> "toggle_dryrun", idx |-> None,
                                  result |-> "ok", writes |-> r.writes]
  /\ UNCHANGED <<holdTimers, staleTimers, procAlive, PUMPKIN_COILS, IGNITER_SHUTOFF,
                 ARM_REQUIRED, MAX_HOLD_SECONDS, showVars, readerVars, threadVars>>

\* The web server: the panel's igniter, press and dry-run switch next to a
\* show under the controller of the mode it was started in.  No write fails.
NextServer ==
  \/ ApiShowStart
  \/ ApiShowStop
  \/ \E sched \in ServerSchedules \cup {<<>>} : ShowBegin(sched)
  \/ \E cause \in StartupFailures : ShowBeginFails(cause)
  \/ \E c \in BOOLEAN : ShowOpenPlc(c, "ok")
  \/ \E ok \in BOOLEAN : ShowPlay(ok)
  \/ ShowMonitor
  \/ ShowJoin
  \/ ShowExit(AllOk)
  \/ PygameQuit
  \/ PygameCheck
  \/ \E r \in TimeReads : PygameApply(r)
  \/ \E r \in TimeReads : PlcSleep(r)
  \/ PlcWrite("ok")
  \/ Tick
  \/ \E d \in BOOLEAN : ToggleIgniter(d, "ok")
  \/ PumpkinPress(0, "ok")
  \/ \E on, c \in BOOLEAN : SetDryrun(on, c, AllOk)

InitServer == Init /\ ARM_REQUIRED /\ MAX_HOLD_SECONDS = 0

SpecServer == InitServer /\ [][NextServer]_vars

\* ------------------------------------------------------------ map readers
\* Longest chart (note list) drawn.
MaxNotes == 5
\* Largest beat offset of a note of a short chart.
MaxBeat == 4
\* Charts up to this length take every combination of notes.
MaxShortChart == 2
\* BPM values are the multiples of 30 from -30 to 30 * MaxBpmStep.
MaxBpmStep == 4

Abs(n) == IF n < 0 THEN -n ELSE n

RECURSIVE GCD(_, _)
GCD(a, b) == IF b = 0 THEN a ELSE GCD(b, a % b)

\* A Python float that is the exact quotient n / d (d # 0), in lowest terms.
Frac(n, d) ==
  LET g == GCD(Abs(n), Abs(d))
      sg == IF d < 0 THEN -1 ELSE 1
  IN <<(sg * n) \div g, (sg * d) \div g>>

\* a / b and a + b on such floats (b # 0 for the division).
FracDiv(a, b) == Frac(a[1] * b[2], a[2] * b[1])
FracAdd(a, b) == Frac(a[1] * b[2] + b[1] * a[2], a[2] * b[2])
FracLeq(a, b) == a[1] * b[2] <= b[1] * a[2]

\* A note entry of a chart: a dictionary holding beat b under the keys K.
Note(K, b) == [k \in K |-> b]

\* The note entries drawn: no key, "_time" (v2), "b" (v3), or both.
Notes == { Note(K, b) : K \in SUBSET {"_time", "b"}, b \in 0 .. MaxBeat }

\* Short charts with every combination of notes, and longer charts whose
\* i-th note is at beat i-1 under one key, any of them malformed (no key).
Charts ==
  UNION { [1 .. n -> Notes] : n \in 0 .. MaxShortChart }
  \cup UNION { { [i \in 1 .. n |-> IF i \in M THEN Note({}, 0) ELSE Note({key}, i - 1)] :
                   M \in SUBSET (1 .. n), key \in {"_time", "b"} } :
               n \in (MaxShortChart + 1) .. MaxNotes }

\* The charts of a map file that holds both collections of the modern
\* schema: up to MaxShortChart notes at beat 0 or MaxBeat.
EventCharts ==
  UNION { [1 .. n -> { Note({"b"}, 0), Note({"b"}, MaxBeat) }] :
            n \in 0 .. MaxShortChart }

\* The map file's dictionary: a chart under one key, no note list at all, or
\* both colorNotes and basicBeatmapEvents.  A collection that is null reads
\* as a missing one, get(key, None).
MapDatas ==
  { [k \in {key} |-> chart] :
      key \in {"_notes", "colorNotes", "basicBeatmapEvents"}, chart \in Charts }
  \cup { [k \in {} |-> <<>>] }
  \cup { [colorNotes |-> c, basicBeatmapEvents |-> e] : c, e \in EventCharts }

Bpms == { 30 * k : k \in -1 .. MaxBpmStep }

\* NOTE_DURATION values of config.ini.
NoteDurations == { Frac(1, 10), Frac(1, 2) }

\* The policy argument a caller passes to extract_notes, or none.
NoArg == "<no argument>"
Methods == { NoArg, "modulus", "position", "normal" }

\* A pulse that ends when it starts: note_duration left out.
NotePulseEndAtStart(b, bpm, dur, i) ==
  LET start == FracDiv(Frac(b, 1), FracDiv(Frac(bpm, 1), Frac(60, 1)))
  IN [start |-> start, end |-> start, pumpkin |-> i % 4]

\* A pulse with the seconds-per-beat factor inverted: beat / (60 / bpm).
NotePulseInverted(b, bpm, dur, i) ==
  LET start == FracDiv(Frac(b, 1), FracDiv(Frac(60, 1), Frac(bpm, 1)))
  IN [start |-> start, end |-> FracAdd(start, dur), pumpkin |-> i % 4]

\* One pulse of extract_notes: start = beat / (bpm / 60), end = start +
\* note_duration, pumpkin = i % 4 for the note's index i in the note list.
NotePulse(b, bpm, dur, i) ==
  LET start == FracDiv(Frac(b, 1), FracDiv(Frac(bpm, 1), Frac(60, 1)))
  IN [start |-> start, end |-> FracAdd(start, dur), pumpkin |-> i % 4]

\* What a call does: raise, or return a list of pulses.
Raised(e) == [raised |-> e, pulses |-> <<>>]
Returned(pulses) == [raised |-> "none", pulses |-> pulses]

\* The legacy loop with the except clause left out.
RECURSIVE V2FromNoExcept(_, _, _, _, _)
V2FromNoExcept(i, notes, bpm, dur, acc) ==
  IF i > Len(notes) THEN Returned(acc)
  ELSE IF "_time" \notin DOMAIN notes[i] THEN Raised("KeyError")
  ELSE IF bpm = 0 THEN Raised("ZeroDivisionError")
  ELSE V2FromNoExcept(i + 1, notes, bpm, dur,
              Append(acc, NotePulse(notes[i]["_time"], bpm, dur, i - 1)))

\* BeatSaberReaderV2.extract_notes from the i-th note on: an entry without
\* "_time" raises KeyError, which is logged, and the loop goes on.
RECURSIVE V2From(_, _, _, _, _)
V2From(i, notes, bpm, dur, acc) ==
  IF i > Len(notes) THEN Returned(acc)
  ELSE IF "_time" \notin DOMAIN notes[i] THEN V2From(i + 1, notes, bpm, dur, acc)
  ELSE IF bpm = 0 THEN Raised("ZeroDivisionError")
  ELSE V2From(i + 1, notes, bpm, dur,
              Append(acc, NotePulse(notes[i]["_time"], bpm, dur, i - 1)))

\* BeatSaberReaderV2.extract_notes: map_data.get("_notes", []).
ExtractNotesV2(map_data, bpm, dur) ==
  V2From(1, IF "_notes" \in DOMAIN map_data THEN map_data["_notes"] ELSE <<>>,
         bpm, dur, <<>>)

\* BeatSaberReaderV3.extract_notes from the i-th note on: no try block.
RECURSIVE V3From(_, _, _, _, _)
V3From(i, notes, bpm, dur, acc) ==
  IF i > Len(notes) THEN Returned(acc)
  ELSE IF "b" \notin DOMAIN notes[i] THEN Raised("KeyError")
  ELSE IF bpm = 0 THEN Raised("ZeroDivisionError")
  ELSE V3From(i + 1, notes, bpm, dur,
              Append(acc, NotePulse(notes[i]["b"], bpm, dur, i - 1)))

\* The modern reader reading colorNotes whenever it is present, empty or not.
ExtractNotesV3ColorNotesIfPresent(map_data, bpm, dur) ==
  IF "colorNotes" \in DOMAIN map_data
    THEN V3From(1, map_data["colorNotes"], bpm, dur, <<>>)
  ELSE IF "basicBeatmapEvents" \in DOMAIN map_data
    THEN V3From(1, map_data["basicBeatmapEvents"], bpm, dur, <<>>)
  ELSE Raised("TypeError")

\* The modern reader reading basicBeatmapEvents first.
ExtractNotesV3EventsFirst(map_data, bpm, dur) ==
  IF "basicBeatmapEvents" \in DOMAIN map_data /\ map_data["basicBeatmapEvents"] # <<>>
    THEN V3From(1, map_data["basicBeatmapEvents"], bpm, dur, <<>>)
  ELSE IF "colorNotes" \in DOMAIN map_data
    THEN V3From(1, map_data["colorNotes"], bpm, dur, <<>>)
  ELSE Raised("TypeError")

\* BeatSaberReaderV3.extract_notes: colorNotes, or when that is missing or
\* empty basicBeatmapEvents; enumerate(None) raises TypeError.
ExtractNotesV3(map_data, bpm, dur) ==
  IF "colorNotes" \in DOMAIN map_data /\ map_data["colorNotes"] # <<>>
    THEN V3From(1, map_data["colorNotes"], bpm, dur, <<>>)
  ELSE IF "basicBeatmapEvents" \in DOMAIN map_data
    THEN V3From(1, map_data["basicBeatmapEvents"], bpm, dur, <<>>)
  ELSE Raised("TypeError")

\* reader.extract_notes(map_data, bpm, NOTE_DURATION[, method]): the readers
\* take three arguments, so a call that passes a method does not bind.
ExtractNotesCall(variant, map_data, bpm, dur, method) ==
  IF method # NoArg THEN Raised("TypeError")
  ELSE IF variant = "V2" THEN ExtractNotesV2(map_data, bpm, dur)
  ELSE ExtractNotesV3(map_data, bpm, dur)

\* reader.load_map: the map file's dictionary is read from the archive.
ReaderLoadMap(map_data) ==
  /\ procAlive
  /\ readerCall.op = "none"
  /\ readerCall' = [op |-> "load_map", map_data |-> map_data]
  /\ UNCHANGED <<configVars, panelVars, showVars, threadVars>>

\* A call of extract_notes, on a reader of either class, with the loaded map.
ReaderExtractNotes(variant, bpm, dur, method) ==
  /\ procAlive
  /\ readerCall.op = "load_map"
  /\ readerCall' = [op |-> "extract_notes", reader |-> variant,
                    map_data |-> readerCall.map_data, bpm |-> bpm,
                    note_duration |-> dur, method |-> method,
                    result |-> ExtractNotesCall(variant, readerCall.map_data,
                                                bpm, dur, method)]
  /\ UNCHANGED <<configVars, panelVars, showVars, threadVars>>

\* A JSON value of a version field: its type and its text.
Str(chars) == [type |-> "str", val |-> chars]
Num(chars) == [type |-> "int", val |-> chars]
PyNone == [type |-> "None", val |-> <<>>]

\* The version fields drawn: "3.2.0", "2.0.0", "", "abc", the numbers 3 and
\* 0, null, and no field at all.
Missing == [type |-> "missing", val |-> <<>>]
Markers ==
  { Str(<<"3", ".", "2", ".", "0">>), Str(<<"2", ".", "0", ".", "0">>),
    Str(<<>>), Str(<<"a", "b", "c">>), Num(<<"3">>), Num(<<"0">>), PyNone, Missing }

\* The map files drawn: not JSON, JSON that is no object, or an object with
\* the two version fields.
Documents ==
  { [kind |-> k, _version |-> Missing, version |-> Missing] :
      k \in {"unparsable", "array"} }
  \cup { [kind |-> "object", _version |-> a, version |-> b] : a, b \in Markers }

\* Python truthiness of a value; "a or b".
TruthyValue(v) ==
  \/ v.type = "str" /\ v.val # <<>>
  \/ v.type = "int" /\ v.val # <<"0">>
PyOr(a, b) == IF TruthyValue(a) THEN a ELSE b

\* data.get(key, None)
GetOrNone(v) == IF v = Missing THEN PyNone ELSE v

\* The try block of create_reader_from_mapfile: the version it ends with,
\* and whether "data" has been assigned.
DetectVersion(doc) ==
  LET default == Str(<<"2", ".", "0", ".", "0">>) IN
  IF doc.kind = "unparsable" THEN [version |-> default, bound |-> FALSE]
  ELSE IF doc.kind = "array" THEN [version |-> default, bound |-> TRUE]
  ELSE LET v == PyOr(GetOrNone(doc._version), GetOrNone(doc.version))
       IN [version |-> IF v = PyNone THEN default ELSE v, bound |-> TRUE]

\* "if version.startswith('3')": a value that is no string has no
\* startswith; the reader is built from "data".
SelectReader(d) ==
  IF d.version.type # "str" THEN [raised |-> "AttributeError", reader |-> "none"]
  ELSE IF ~d.bound THEN [raised |-> "UnboundLocalError", reader |-> "none"]
  ELSE [raised |-> "none",
        reader |-> IF d.version.val # <<>> /\ Head(d.version.val) = "3"
                     THEN "V3" ELSE "V2"]

\* BeatSaberReaderFactory.create_reader_from_mapfile
CreateReaderFromMapfile(doc) ==
  /\ procAlive
  /\ readerCall.op = "none"
  /\ readerCall' = [op |-> "create_reader", file_obj |-> doc,
                    result |-> SelectReader(DetectVersion(doc))]
  /\ UNCHANGED <<configVars, panelVars, showVars, threadVars>>

\* The calls into map_reader, each on inputs of its own.
NextReader ==
  \/ \E doc \in Documents : CreateReaderFromMapfile(doc)
  \/ \E map_data \in MapDatas : ReaderLoadMap(map_data)
  \/ \E variant \in {"V2", "V3"}, bpm \in Bpms, dur \in NoteDurations,
        method \in Methods :
       ReaderExtractNotes(variant, bpm, dur, method)

InitReader ==
  /\ Init /\ DRYRUN /\ ARM_REQUIRED /\ MAX_HOLD_SECONDS = 0
  /\ IGNITER_SHUTOFF = NumChannels

SpecReader == InitReader /\ [][NextReader]_vars

\* ---------------------------------------------------------------- claims
\* The output the show's dispatcher drives for pumpkin i is on.
ShowChannelOn(i) ==
  IF DRYRUN THEN showSim[PUMPKIN_COILS[i]] ELSE plcCoils[PUMPKIN_COILS[i]]

\* The step is a channel-on write of the dispatcher.
DispatcherOnWrite ==
  /\ Len(applied') = Len(applied) + 1
  /\ applied'[Len(applied')].state

\* C1: after _all_off_and_disarm (run by _shutdown) every mapped pumpkin has
\* had an Off write issued to its coil and is recorded Off, and the igniter
\* has been disarmed, whatever write failed.
C1_AllOffSecuresEveryChannel ==
  last.op = "shutdown" =>
    /\ \A i \in Channels :
         PUMPKIN_COIL_LIST[i] # None =>
           /\ <<PUMPKIN_COIL_LIST[i], FALSE>> \in last.writes
           /\ ~State.pumpkins[i]
    /\ <<IGNITER_SHUTOFF, TRUE>> \in last.writes
    /\ ~State.igniter_armed

\* The step is pumpkin_press for a valid index while arming is required and
\* the igniter is disarmed.
PressWhileDisarmed(i) ==
  /\ ARM_REQUIRED
  /\ ~State.igniter_armed
  /\ \E o \in Outcomes : PumpkinPress(i, o)

\* C2 (as amended): pumpkin_press for an index 0..3 while arming is required
\* and the igniter is disarmed reports "not armed", issues no coil write and
\* changes nothing: the interlock state, the coils and every pumpkin (the
\* pressed one included) stay as they were.
C2_RejectedPressChangesNothing ==
  [][\A i \in Channels :
       PressWhileDisarmed(i) =>
         /\ last'.result = "not_armed"
         /\ last'.writes = {}
         /\ UNCHANGED <<State, plcCoils, panelSim, holdTimers>>]_vars

\* C2 witness: a press was rejected as not armed while another request had
\* left a pumpkin on.
C2_Witness ==
  /\ last.op = "pumpkin_press"
  /\ last.result = "not_armed"
  /\ last.idx \in Channels
  /\ ARM_REQUIRED /\ ~State.igniter_armed
  /\ \E j \in Channels : State.pumpkins[j]

\* C2 (as claimed): the rejected press also leaves pumpkin idx Off.
C2_RejectedPressLeavesChannelOff ==
  [][\A i \in Channels :
       PressWhileDisarmed(i) =>
         /\ last'.result = "not_armed"
         /\ last'.writes = {}
         /\ ~State'.pumpkins[i]
         /\ UNCHANGED <<State, plcCoils, panelSim, holdTimers>>]_vars

\* The interlock reports Armed: the panel's record says so, or the igniter
\* shutoff coil of the PLC is released.
InterlockArmed == State.igniter_armed \/ ~plcCoils[IGNITER_SHUTOFF]

\* C3: with arming required, the dispatcher issues a channel-on write only
\* in a state where the interlock is Armed.
C3_DispatcherFiresOnlyWhenArmed ==
  [][(ARM_REQUIRED /\ DispatcherOnWrite) => InterlockArmed]_vars

\* C4: once a show stopped on request has left run_blocking_action, all four
\* channels are Off, in every later state too (here: already in runs in
\* which no write failed).
C4_StoppedShowAllOff ==
  (show.status = "stopped" /\ show.pc = "exited" /\ faults = 0) =>
    \A i \in Channels : ~ShowChannelOn(i)

\* C5: when the dispatcher has ended on a failed channel write and the show
\* runner has finished its clean-up, no channel is left On.
C5_FailedDispatchReleasesChannels ==
  (disp.pc = "dead_write" /\ show.pc = "exited") =>
    \A i \in Channels : ~ShowChannelOn(i)

\* C6: a show reports at most one terminal status, and a show whose thread
\* has exited is neither queued nor running.
C6_ExactlyOneTerminalStatus ==
  /\ Len(show.terminals) <= 1
  /\ show.pc = "exited" => show.status \in Terminal

\* The igniter is disarmed: the shutoff coil is asserted and the panel does
\* not record the igniter as armed.
IgniterDisarmed == plcCoils[IGNITER_SHUTOFF] /\ ~State.igniter_armed

\* C7: the step on which a show that opened the PLC leaves
\* run_blocking_action (done, stopped or error) ends with every mapped
\* channel Off and the igniter disarmed (here: already in runs in which no
\* write failed).
C7_ShowExitAllOffAndDisarmed ==
  [][(show.pc = "exit" /\ show'.pc = "exited" /\ faults' = 0) =>
       /\ \A i \in Channels : ~ShowChannelOn(i)'
       /\ IgniterDisarmed']_vars

\* C8: when the process has exited, an Off write has gone to the coil of
\* every mapped pumpkin and the disarming write to the igniter shutoff.
C8_ExitWritesAllOffAndDisarm ==
  ~procAlive =>
    {<<PUMPKIN_COILS[i], FALSE>> : i \in Channels} \cup {<<IGNITER_SHUTOFF, TRUE>>}
      \subseteq last.writes

\* The note duration of the running schedule.
NoteDuration == show.schedule[1].end - show.schedule[1].start

\* C9: a channel-on is not held back until an overlapping pulse on another
\* channel has been released: no Off write of a pulse precedes the On write
\* of a pulse on another channel that starts before the first one ends.
C9_OverlappingPulsesNotSerialised ==
  \A k \in 1 .. Len(applied) : \A j \in 1 .. (k - 1) :
    ~ /\ applied[k].state
      /\ ~applied[j].state
      /\ applied[j].coil # applied[k].coil
      /\ applied[k].time < applied[j].time
      /\ applied[j].time - NoteDuration < applied[k].time + NoteDuration

\* The place of an event in the schedule's input order.
InputPlace(e) ==
  LET evs == PulseEvents(show.schedule)
  IN CHOOSE n \in 1 .. Len(evs) :
       evs[n] = e /\ \A m \in 1 .. (n - 1) : evs[m] # e

\* C10: the dispatcher's writes are in non-decreasing order of event time,
\* and events of equal time keep their input order.
C10_EventsAppliedInTimeOrder ==
  \A k \in 1 .. Len(applied) : \A j \in 1 .. (k - 1) :
    /\ applied[j].time <= applied[k].time
    /\ applied[j].time = applied[k].time =>
         InputPlace(applied[j]) <= InputPlace(applied[k])

\* The step is a coil write of the dispatcher (an edge event is applied).
DispatcherWrite == Len(applied') = Len(applied) + 1

\* C11: the dispatcher applies an edge event only when the playback clock
\* has reached the event's time.
C11_EventAppliedNotBeforeItsTime ==
  [][DispatcherWrite => stream.time >= applied'[Len(applied')].time]_vars

\* C12: once a stop request has been served (status "stopped"; the stream's
\* clock has been halted at the time of the stop) the dispatcher applies no
\* edge event that was not yet due at the stop.
C12_NoEventDueAfterStopIsApplied ==
  [][(show.status = "stopped" /\ DispatcherWrite) =>
       applied'[Len(applied')].time <= stream.time]_vars

\* C13: a show whose schedule is empty ends with status error on the step
\* that finds it so, and neither that step nor any later one arms the
\* igniter, writes a coil, opens the stream or starts the dispatcher for it.
C13_EmptyScheduleRejectedBeforeHardware ==
  /\ [][(show.pc = "begin" /\ show'.pc # "begin" /\ show'.schedule = <<>>) =>
          /\ show'.pc = "exited"
          /\ show'.terminals = <<"error">>
          /\ UNCHANGED <<plcCoils, showSim, disp, applied, stream, State>>]_vars
  /\ []((show.pc \notin {"none", "begin"} /\ show.schedule = <<>>) =>
          /\ show.status = "error"
          /\ disp = NoDisp /\ applied = <<>> /\ ~stream.open)

\* C13 witness: a show was rejected for its empty schedule.
C13_Witness ==
  /\ show.pc = "exited" /\ show.schedule = <<>>
  /\ show.status = "error" /\ disp.pc = "none"

\* The call is extract_notes as the readers declare it (three arguments).
Extracted == readerCall.op = "extract_notes" /\ readerCall.method = NoArg

\* C14: extract_notes with a BPM <= 0 produces no pulse (it raises, or at
\* least returns nothing), and no returned pulse has a negative start.
C14_NonPositiveBpmYieldsNoPulse ==
  Extracted =>
    /\ readerCall.bpm <= 0 => readerCall.result.pulses = <<>>
    /\ \A k \in 1 .. Len(readerCall.result.pulses) :
         readerCall.result.pulses[k].start[1] >= 0

\* The policies the specification recognises.
RecognizedMethods == { "modulus", "position" }

\* C15: extract_notes takes the channel-assignment policy as an argument: a
\* call that names a recognised policy is accepted (the argument binds), and a
\* call that names any other policy is rejected.
C15_PolicyArgumentAcceptedOrRejected ==
  (readerCall.op = "extract_notes" /\ readerCall.bpm > 0) =>
    /\ readerCall.method \in RecognizedMethods =>
         readerCall.result.raised # "TypeError"
    /\ readerCall.method \notin RecognizedMethods \cup {NoArg} =>
         readerCall.result.raised # "none"

\* C16: the k-th pulse of a produced schedule (counting from 0) is on channel
\* k mod 4, also when the legacy reader has skipped malformed entries.
C16_ProducedPulsesRotateChannels ==
  (Extracted /\ readerCall.bpm > 0) =>
    \A k \in 1 .. Len(readerCall.result.pulses) :
      readerCall.result.pulses[k].pumpkin = (k - 1) % NumChannels

\* The note list the called reader iterated over, and the key it reads the
\* beat offset from.
ReadNotes ==
  LET m == readerCall.map_data IN
  IF readerCall.reader = "V2"
    THEN IF "_notes" \in DOMAIN m THEN m["_notes"] ELSE <<>>
  ELSE IF "colorNotes" \in DOMAIN m /\ m["colorNotes"] # <<>> THEN m["colorNotes"]
  ELSE IF "basicBeatmapEvents" \in DOMAIN m THEN m["basicBeatmapEvents"]
  ELSE <<>>
BeatKey == IF readerCall.reader = "V2" THEN "_time" ELSE "b"

\* The entries of that list that hold a beat offset, in input order.
WellFormedNotes == SelectSeq(ReadNotes, LAMBDA n : BeatKey \in DOMAIN n)

\* A call that returned a schedule for a positive BPM.
ExtractedAtPositiveBpm ==
  Extracted /\ readerCall.bpm > 0 /\ readerCall.result.raised = "none"

\* The chart with beats 0, 1, 2, 3 read at 120 BPM.
FourBeatsAt120 ==
  /\ ExtractedAtPositiveBpm
  /\ readerCall.bpm = 120
  /\ ReadNotes = [i \in 1 .. 4 |-> Note({BeatKey}, i - 1)]

\* C17: for a BPM > 0 a note at beat b >= 0 starts at b * 60 / bpm seconds,
\* which is non-decreasing in b; beats 0, 1, 2, 3 at 120 BPM give the starts
\* 0, 1/2, 1, 3/2 on the channels 0, 1, 2, 3.
C17_BeatToSecondsConversion ==
  ExtractedAtPositiveBpm =>
    LET pulses == readerCall.result.pulses
        beat(k) == WellFormedNotes[k][BeatKey]
    IN /\ Len(pulses) = Len(WellFormedNotes)
       /\ \A k \in 1 .. Len(pulses) :
            /\ pulses[k].start[2] > 0
            /\ pulses[k].start[1] * readerCall.bpm = beat(k) * 60 * pulses[k].start[2]
       /\ \A j, k \in 1 .. Len(pulses) :
            beat(j) <= beat(k) => FracLeq(pulses[j].start, pulses[k].start)
       /\ FourBeatsAt120 =>
            /\ [k \in 1 .. 4 |-> pulses[k].start] = <<<<0, 1>>, <<1, 2>>, <<1, 1>>, <<3, 2>>>>
            /\ [k \in 1 .. 4 |-> pulses[k].pumpkin] = <<0, 1, 2, 3>>

\* The four-beat chart has been read at 120 BPM by the legacy reader, which
\* returned four pulses.
C17_Witness ==
  /\ FourBeatsAt120
  /\ readerCall.reader = "V2"
  /\ Len(readerCall.result.pulses) = 4

\* The version marker of a parsed map file: "_version", or when that is
\* missing or falsy "version".
Marker(doc) == PyOr(GetOrNone(doc._version), GetOrNone(doc.version))

\* A marker that is a string starting with "3".
ModernMarker(m) == m.type = "str" /\ m.val # <<>> /\ Head(m.val) = "3"

\* create_reader_from_mapfile has been called on a map file that parsed to an
\* object.
CreatedFromObject ==
  readerCall.op = "create_reader" /\ readerCall.file_obj.kind = "object"

\* C18: the selection depends on the version marker only: a string starting
\* with "3" selects the modern reader; "2.0.0", the empty string, a missing
\* marker and any malformed marker select the legacy reader.
C18_SelectionByMarkerOnly ==
  CreatedFromObject =>
    readerCall.result =
      [raised |-> "none",
       reader |-> IF ModernMarker(Marker(readerCall.file_obj)) THEN "V3" ELSE "V2"]

\* C19: create_reader_from_mapfile does not raise on a permissive input: for
\* a document that is not parsable, that has no version field, or whose
\* version field is not a string, it returns the legacy reader.
C19_PermissiveInputGivesLegacyReader ==
  (/\ readerCall.op = "create_reader"
   /\ \/ readerCall.file_obj.kind # "object"
      \/ Marker(readerCall.file_obj).type # "str") =>
    readerCall.result = [raised |-> "none", reader |-> "V2"]

\* The legacy reader has been called with a positive BPM.
LegacyExtracted ==
  Extracted /\ readerCall.reader = "V2" /\ readerCall.bpm > 0

\* C20: legacy extraction is partial: on a note list in which some entries
\* lack "_time", extract_notes does not raise and returns exactly one pulse
\* per entry that has it, in input order.
C20_LegacyExtractionSkipsMalformed ==
  LegacyExtracted =>
    /\ readerCall.result.raised = "none"
    /\ Len(readerCall.result.pulses) = Len(WellFormedNotes)
    /\ \A k \in 1 .. Len(WellFormedNotes) :
         readerCall.result.pulses[k].start =
           Frac(WellFormedNotes[k]["_time"] * 60, readerCall.bpm)

\* A legacy note list with a malformed entry between two well-formed ones at
\* different beats has been extracted.
C20_Witness ==
  /\ LegacyExtracted
  /\ Len(ReadNotes) >= 3
  /\ "_time" \in DOMAIN ReadNotes[1]
  /\ "_time" \notin DOMAIN ReadNotes[2]
  /\ "_time" \in DOMAIN ReadNotes[3]
  /\ Len(readerCall.result.pulses) = 2
  /\ readerCall.result.pulses[1].start # readerCall.result.pulses[2].start

\* C21: the schedule a reader returns is ordered by start time ascending,
\* whatever the order of the notes in the chart.
C21_ScheduleOrderedByStart ==
  ExtractedAtPositiveBpm =>
    \A j, k \in 1 .. Len(readerCall.result.pulses) :
      j < k => FracLeq(readerCall.result.pulses[j].start,
                       readerCall.result.pulses[k].start)

\* The output of pumpkin i of the panel's controller is On.
PanelChannelOn(i) ==
  IF DRYRUN THEN panelSim[PUMPKIN_COIL_LIST[i]] ELSE plcCoils[PUMPKIN_COIL_LIST[i]]

\* C22: with an auto-release duration configured and no write failing, a
\* pumpkin whose output is On always has a killer thread pending in a live
\* process, which turns it Off when its sleep of MAX_HOLD_SECONDS is over: no
\* output is left On with nothing to release it.
C22_OnChannelHasPendingAutoRelease ==
  (MAX_HOLD_SECONDS > 0 /\ faults = 0) =>
    \A i \in Channels :
      PanelChannelOn(i) => (procAlive /\ holdTimers[i] > 0)

\* C23: once a control-panel client has disconnected, every pumpkin output is
\* Off and the igniter is disarmed, as after a shutdown.
C23_DisconnectAllOffAndDisarmed ==
  last.op = "disconnect" =>
    /\ \A i \in Channels : ~PanelChannelOn(i) /\ ~State.pumpkins[i]
    /\ ~State.igniter_armed

\* The coils of the PLC an execution context is writing: the handler inside
\* set_coil (every pumpkin coil the sweep of _set_dryrun writes, and the
\* shutoff), a killer inside its set_coil.  The simulated controller takes its
\* own lock for each write.
HandlerWriting ==
  LET h == threads.handler IN
  IF DRYRUN \/ h.pc # "write" THEN {}
  ELSE IF h.op = "toggle_dryrun"
    THEN {PUMPKIN_COIL_LIST[i] : i \in {j \in Channels : Truthy(PUMPKIN_COIL_LIST[j])}}
         \cup {IGNITER_SHUTOFF}
  ELSE {HandlerCoil(h)}
KillerWriting(i) ==
  IF ~DRYRUN /\ threads.killer[i] = "write" THEN {PUMPKIN_COIL_LIST[i]} ELSE {}

\* The entries of STATE a context has read or written and not yet stored:
\* a pumpkin's index, or ArmedEntry for "igniter_armed".
ArmedEntry == NumChannels
HandlerUpdating ==
  LET h == threads.handler IN
  IF h.pc = "idle" THEN {}
  ELSE IF h.op = "toggle_dryrun" THEN Channels \cup {ArmedEntry}
  ELSE IF h.op = "toggle_igniter" THEN {ArmedEntry}
  ELSE {h.idx}
KillerUpdating(i) == IF threads.killer[i] = "idle" THEN {} ELSE {i}

\* C24: no two execution contexts are at the same time inside a write to the
\* same coil, or inside an update of the same entry of STATE.
C24_MutationsMutuallyExclusive ==
  \A i \in Channels :
    /\ HandlerWriting \cap KillerWriting(i) = {}
    /\ HandlerUpdating \cap KillerUpdating(i) = {}
    /\ \A j \in Channels \ {i} :
         /\ KillerWriting(i) \cap KillerWriting(j) = {}
         /\ KillerUpdating(i) \cap KillerUpdating(j) = {}

\* C25: every pulse a reader returns satisfies end = start + note_duration
\* for the one note_duration of the call, hence start <= end (the durations
\* are not negative).
C25_EndIsStartPlusNoteDuration ==
  Extracted =>
    \A k \in 1 .. Len(readerCall.result.pulses) :
      LET p == readerCall.result.pulses[k]
          d == readerCall.note_duration
      IN /\ p.start[2] > 0 /\ p.end[2] > 0 /\ d[2] > 0 /\ d[1] >= 0
         /\ (p.end[1] * p.start[2] - p.start[1] * p.end[2]) * d[2]
              = d[1] * p.start[2] * p.end[2]
         /\ FracLeq(p.start, p.end)

\* The modern reader has returned two pulses that start at different times.
C25_Witness ==
  /\ Extracted
  /\ readerCall.reader = "V3"
  /\ Len(readerCall.result.pulses) >= 2
  /\ readerCall.result.pulses[1].start # readerCall.result.pulses[2].start

\* The modern reader has been called on a map file that holds both
\* collections.
ModernExtracted ==
  /\ Extracted /\ readerCall.reader = "V3" /\ readerCall.bpm > 0
  /\ DOMAIN readerCall.map_data = {"colorNotes", "basicBeatmapEvents"}

\* The outcome of the call is the one of reading the note list "notes".
ReadFrom(notes) ==
  readerCall.result =
    V3From(1, notes, readerCall.bpm, readerCall.note_duration, <<>>)

\* C26 (as claimed): the modern reader reads colorNotes whenever that
\* collection is present, an empty list included.
C26_ColorNotesWheneverPresent ==
  ModernExtracted => ReadFrom(readerCall.map_data["colorNotes"])

\* C26 (as amended): the modern reader reads colorNotes when that collection
\* is present and not empty, and basicBeatmapEvents when colorNotes is
\* missing, null or empty.
C26_ColorNotesUnlessEmpty ==
  ModernExtracted =>
    IF readerCall.map_data["colorNotes"] # <<>>
      THEN ReadFrom(readerCall.map_data["colorNotes"])
      ELSE ReadFrom(readerCall.map_data["basicBeatmapEvents"])

\* Both collections hold notes, at different beats, and the call returned
\* the pulse of colorNotes.
C26_Witness ==
  /\ ModernExtracted
  /\ Len(readerCall.map_data["colorNotes"]) = 1
  /\ Len(readerCall.map_data["basicBeatmapEvents"]) = 1
  /\ readerCall.map_data["colorNotes"] # readerCall.map_data["basicBeatmapEvents"]
  /\ Len(readerCall.result.pulses) = 1

\* The modern reader has been called, with a positive BPM, on a map file
\* whose colorNotes is empty and whose basicBeatmapEvents holds notes with
\* the field "b".
EventsOnlyExtracted ==
  /\ ModernExtracted
  /\ readerCall.map_data["colorNotes"] = <<>>
  /\ \A k \in DOMAIN readerCall.map_data["basicBeatmapEvents"] :
       "b" \in DOMAIN readerCall.map_data["basicBeatmapEvents"][k]

\* Scenario B: colorNotes empty, basicBeatmapEvents at the beats 0 and 4,
\* 60 BPM.
ScenarioB ==
  /\ EventsOnlyExtracted
  /\ readerCall.bpm = 60
  /\ readerCall.map_data["basicBeatmapEvents"] = <<Note({"b"}, 0), Note({"b"}, 4)>>

\* C27: for a modern chart whose colorNotes is empty and whose
\* basicBeatmapEvents has n entries with the beat field b, extraction returns
\* n pulses, the k-th starting at b * 60 / bpm of the k-th entry; the beats
\* 0 and 4 at 60 BPM give the starts 0 and 4.
C27_EventsReadWhenColorNotesEmpty ==
  EventsOnlyExtracted =>
    LET events == readerCall.map_data["basicBeatmapEvents"]
        pulses == readerCall.result.pulses
    IN /\ readerCall.result.raised = "none"
       /\ Len(pulses) = Len(events)
       /\ \A k \in 1 .. Len(events) :
            /\ pulses[k].start[2] > 0
            /\ pulses[k].start[1] * readerCall.bpm
                 = events[k]["b"] * 60 * pulses[k].start[2]
       /\ ScenarioB =>
            [k \in 1 .. 2 |-> pulses[k].start] = <<<<0, 1>>, <<4, 1>>>>

\* Scenario B has been extracted and two pulses returned.
C27_Witness ==
  ScenarioB /\ Len(readerCall.result.pulses) = 2

\* The step is toggle_igniter with armed = false.
Disarm == \E o \in Outcomes : ToggleIgniter(FALSE, o)

\* C28: toggle_igniter with armed = false writes the igniter shutoff coil and
\* the armed flag only: every pumpkin's recorded state and output, every
\* other coil and the hold timers are left as they were.
C28_DisarmLeavesChannelsAlone ==
  [][Disarm =>
       /\ State'.pumpkins = State.pumpkins
       /\ \A i \in Channels : PanelChannelOn(i)' = PanelChannelOn(i)
       /\ \A c \in Coils \ {IGNITER_SHUTOFF} : plcCoils'[c] = plcCoils[c]
       /\ last'.writes = {<<IGNITER_SHUTOFF, TRUE>>}
       /\ UNCHANGED holdTimers]_vars

\* The igniter has been disarmed while a pumpkin was On, and the pumpkin is
\* still On.
C28_Witness ==
  /\ last.op = "toggle_igniter"
  /\ last.result = "ok"
  /\ last.writes = {<<IGNITER_SHUTOFF, TRUE>>}
  /\ ~State.igniter_armed
  /\ \E i \in Channels : State.pumpkins[i] /\ PanelChannelOn(i)

\* What the info document can lack: the BPM, the song filename, or a song
\* file that is in the archive.
InfoFailures == {"no_bpm", "song_name", "song_file"}

\* C29: a show whose info document lacks the BPM or the song filename (or
\* names a song that is not in the archive) ends with the one terminal status
\* "error" before any coil is written, any dispatcher or stream started; the
\* process is still running and api_show_start can start another show.
C29_InfoFailureEndsShowOnly ==
  /\ [][(show.pc = "begin" /\ show'.cause \in InfoFailures) =>
          /\ show'.pc = "exited"
          /\ show'.terminals = <<"error">>
          /\ UNCHANGED <<plcCoils, showSim, disp, applied, stream, State, procAlive>>]_vars
  /\ []((show.pc = "exited" /\ show.cause \in InfoFailures) =>
          /\ show.status = "error"
          /\ procAlive
          /\ ENABLED ApiShowStart)

\* A show has ended in "error" for want of a BPM, with nothing dispatched.
C29_Witness ==
  /\ show.pc = "exited" /\ show.cause = "no_bpm"
  /\ show.status = "error" /\ disp.pc = "none" /\ applied = <<>>

\* The pulses of the show's schedule that have a coil, and whether one has
\* none.
MappedPulses ==
  { k \in 1 .. Len(show.schedule) : PumpkinCoil(show.schedule[k].pumpkin) # None }
HasUnmappedPulse == MappedPulses # 1 .. Len(show.schedule)

\* The edge events of the pulses that have a coil.
MappedEdges ==
  { [time |-> show.schedule[k].start,
     coil |-> PumpkinCoil(show.schedule[k].pumpkin), state |-> TRUE] :
      k \in MappedPulses }
  \cup { [time |-> show.schedule[k].end,
          coil |-> PumpkinCoil(show.schedule[k].pumpkin), state |-> FALSE] :
           k \in MappedPulses }

\* C30 (no write): the dispatcher issues no write for a pulse without a coil:
\* every write it issues is an edge event of a pulse that has one.
C30_NoWriteForUnmappedPulse ==
  HasUnmappedPulse =>
    \A n \in 1 .. Len(applied) : applied[n] \in MappedEdges

\* C30 (the others): a dispatcher that has run to the end of a schedule with
\* an unmapped pulse, in a show nobody stopped, has issued every edge event of
\* the other pulses and nothing else.
C30_OtherPulsesAllApplied ==
  (HasUnmappedPulse /\ disp.pc = "finished" /\ disp.running /\ ~show.stop_event) =>
    /\ MappedEdges \subseteq { applied[n] : n \in 1 .. Len(applied) }
    /\ Len(applied) = 2 * Cardinality(MappedPulses)

DryrunSwapped == DRYRUN' # DRYRUN

\* C31: when _set_dryrun swaps the controller no show that began before is
\* queued or running, and after the swap the igniter is recorded disarmed and
\* written disarmed, and every pumpkin is recorded Off and is Off on the
\* controller swapped out and on the one swapped in.
C31_NoSwapWhileShowActive ==
  [][DryrunSwapped =>
       /\ show.status \notin {"queued", "running"}
       /\ ~State'.igniter_armed /\ plcCoils'[IGNITER_SHUTOFF]
       /\ \A i \in Channels :
            /\ ~State'.pumpkins[i]
            /\ ~plcCoils'[PUMPKIN_COIL_LIST[i]]
            /\ ~panelSim'[PUMPKIN_COIL_LIST[i]]]_vars

\* A pulse of the show's schedule on pumpkin i is active at clock instant t.
Covered(i, t) ==
  \E k \in 1 .. Len(show.schedule) :
    /\ show.schedule[k].pumpkin = i
    /\ show.schedule[k].start <= t /\ t < show.schedule[k].end

\* Two pulses of the schedule are on the same pumpkin and overlap in time.
SameChannelOverlap ==
  \E j, k \in 1 .. Len(show.schedule) :
    /\ j # k /\ show.schedule[j].pumpkin = show.schedule[k].pumpkin
    /\ show.schedule[j].start <= show.schedule[k].start
    /\ show.schedule[k].start < show.schedule[j].end
    /\ show.schedule[j].end < show.schedule[k].end

\* The simulated dispatcher of a show nobody stopped has applied every event
\* that is due at the stream's clock.
PygameCaughtUp ==
  /\ show.is_dryrun /\ show.pc = "monitor" /\ ~show.stop_event
  /\ disp.running /\ stream.open /\ ~stream.closed
  /\ disp.pc \in {"check", "apply"}
  /\ LET evs == SortedEvents(show.schedule) IN
       disp.idx <= Len(evs) => evs[disp.idx].time > stream.time

\* C32: with two overlapping pulses on one channel, once the dispatcher has
\* applied every event due so far, the channel is On at every clock instant
\* that one of the pulses covers.
C32_SameChannelOverlapStaysOn ==
  (SameChannelOverlap /\ PygameCaughtUp) =>
    \A i \in Channels :
      Covered(i, stream.time) => showSim[PUMPKIN_COILS[i]]

\* C33: a killer started by a press that has ended (by a release or by an
\* earlier killer) wakes before the killer of the press in course, i.e. less
\* than MAX_HOLD_SECONDS after that press; it leaves the pumpkin On.
C33_TimerReleasesOnlyItsOwnPress ==
  [][\A i \in Channels :
       (holdTimers'[i] < holdTimers[i] /\ staleTimers[i] > 0 /\ State.pumpkins[i]) =>
         (State'.pumpkins[i] /\ PanelChannelOn(i)')]_vars

\* The interrupt handler of the command-line player has disarmed the igniter
\* and swept the valves Off.
InterruptServed == show.pc = "cli_interrupted" /\ last.result = "ok"

ScheduleCoils == { PUMPKIN_COILS[i] : i \in Channels }

\* C35: the sweep of PLCController.__exit__, when none of its writes fails,
\* leaves every coil run_schedule can turn On Off and changes no other coil.
C35_ExitSweepsTheScheduleCoils ==
  [][(show.pc = "exit" /\ show'.pc = "exited" /\ faults' = faults) =>
       \A c \in Coils :
         IF c \in ScheduleCoils THEN ~plcCoils'[c]
         ELSE plcCoils'[c] = plcCoils[c]]_vars

\* C36: no two shows are in status running at the same time, each with a
\* dispatcher thread that is writing the coils.
C36_AtMostOneShowRunning ==
  ~(/\ show.status = "running" /\ DispAlive
    /\ otherShow.status = "running" /\ otherShow.pc \in {"on", "off"})

\* The step is the channel-on write of pumpkin_press.
PressWrite ==
  /\ threads.handler.op = "pumpkin_press"
  /\ threads.handler.pc = "write" /\ threads'.handler.pc = "store"

\* C37: with arm-required, pumpkin_press issues its channel-on write only
\* while the igniter is recorded armed: no disarm has completed since the
\* handler's armed check.
C37_NoOnWriteAfterDisarm ==
  [][(ARM_REQUIRED /\ PressWrite) => State.igniter_armed]_vars

\* The show has reported "done".
ReportedDone == \E n \in 1 .. Len(show.terminals) : show.terminals[n] = "done"

\* C38: a show that has reported done has a dispatcher that ran to the end
\* of run_schedule and issued every edge event of the schedule; a dispatcher
\* ended by an exception never yields done.
C38_DoneOnlyAfterWholeSchedule ==
  ReportedDone =>
    /\ disp.pc = "finished"
    /\ Len(applied) = Len(PulseEvents(show.schedule))

\* C39: every started show eventually reaches a terminal status (done,
\* stopped or error) when its threads are scheduled fairly, whether the
\* playback clock keeps advancing or the audio stream stops advancing before
\* the last edge event is due.
ShowStarted == show.status \in {"queued", "running"}
ShowEnded == show.status \in Terminal
====
